---- MODULE Spec2Model ----
(***************************************************************************)
(* A model of katsu's src/config.rs: the partition layout engine           *)
(* (sort_partitions, mount_to_chroot, unmount_from_chroot, fstab, apply)   *)
(* and the manifest composer (load, load_all).                             *)
(*                                                                         *)
(* Strings the code inspects character by character (mountpoints, disk     *)
(* paths) are sequences of one-character strings; strings the code only    *)
(* compares for equality (filesystem names, labels) are TLA+ strings.      *)
(* Option<T> is a sequence of length 0 (None) or 1 (Some).                 *)
(***************************************************************************)
EXTENDS Integers, Sequences, FiniteSets, TLC

\* Bound: the largest number of partitions a layout declares.
MaxParts == 3

None == << >>
Some(x) == << x >>
IsSome(o) == Len(o) = 1
Unwrap(o) == o[1]

(***************************************************************************)
(* Characters and their byte values (Rust compares str bytewise).          *)
(***************************************************************************)
Byte ==
    [c \in {"-", "/", "0", "1", "2", "3", "4", "5", "6", "7", "8", "9",
            "a", "b", "d", "e", "f", "i", "o", "p", "s", "t", "v"} |->
        CASE c = "-" -> 45 [] c = "/" -> 47
          [] c = "0" -> 48 [] c = "1" -> 49 [] c = "2" -> 50 [] c = "3" -> 51
          [] c = "4" -> 52 [] c = "5" -> 53 [] c = "6" -> 54 [] c = "7" -> 55
          [] c = "8" -> 56 [] c = "9" -> 57
          [] c = "a" -> 97 [] c = "b" -> 98 [] c = "d" -> 100 [] c = "e" -> 101
          [] c = "f" -> 102 [] c = "i" -> 105 [] c = "o" -> 111
          [] c = "p" -> 112 [] c = "s" -> 115 [] c = "t" -> 116
          [] c = "v" -> 118]

\* str::cmp: lexicographic comparison of the bytes.
RECURSIVE StrCmp(_, _)
StrCmp(a, b) ==
    IF a = << >> /\ b = << >> THEN "Equal"
    ELSE IF a = << >> THEN "Less"
    ELSE IF b = << >> THEN "Greater"
    ELSE IF Byte[Head(a)] < Byte[Head(b)] THEN "Less"
    ELSE IF Byte[Head(a)] > Byte[Head(b)] THEN "Greater"
    ELSE StrCmp(Tail(a), Tail(b))

\* usize::cmp
NumCmp(a, b) == IF a < b THEN "Less" ELSE IF a > b THEN "Greater" ELSE "Equal"

\* str::starts_with
StartsWith(s, prefix) ==
    /\ Len(s) >= Len(prefix)
    /\ SubSeq(s, 1, Len(prefix)) = prefix

\* str::trim_end_matches('/')
RECURSIVE TrimEndSlashes(_)
TrimEndSlashes(s) ==
    IF s # << >> /\ s[Len(s)] = "/" THEN TrimEndSlashes(SubSeq(s, 1, Len(s) - 1))
    ELSE s

\* str::trim_start_matches('/')
RECURSIVE TrimStartSlashes(_)
TrimStartSlashes(s) ==
    IF s # << >> /\ Head(s) = "/" THEN TrimStartSlashes(Tail(s)) ELSE s

\* str::matches('/').count()
CountSlashes(s) == Cardinality({i \in 1..Len(s) : s[i] = "/"})

\* The decimal digits of a usize, as format!("{}") prints it.
RECURSIVE Decimal(_)
Decimal(n) ==
    LET d == <<"0", "1", "2", "3", "4", "5", "6", "7", "8", "9">>[(n % 10) + 1]
    IN IF n < 10 THEN <<d>> ELSE Decimal(n \div 10) \o <<d>>

(***************************************************************************)
(* partition_name                                                          *)
(***************************************************************************)
DevMmcblk == <<"/", "d", "e", "v", "/", "m", "m", "c", "b", "l", "k">>
DevNvme == <<"/", "d", "e", "v", "/", "n", "v", "m", "e">>
DevLoop == <<"/", "d", "e", "v", "/", "l", "o", "o", "p">>

\* The name with "p" put after every disk whose path ends in a digit.
partition_name_after_digit(disk, partition) ==
    disk
    \o (IF disk # << >> /\ disk[Len(disk)] \in {"0", "1", "2", "3", "4", "5", "6", "7", "8", "9"}
        THEN <<"p">> ELSE << >>)
    \o Decimal(partition)

partition_name(disk, partition) ==
    disk
    \o (IF StartsWith(disk, DevMmcblk) \/ StartsWith(disk, DevNvme)
           \/ StartsWith(disk, DevLoop)
        THEN <<"p">> ELSE << >>)
    \o Decimal(partition)

(***************************************************************************)
(* PartitionType::uuid and PartitionFlag::flag_position.  A call either    *)
(* returns a value, Returned(v), or panics (unimplemented!()), Panicked.   *)
(***************************************************************************)
Returned(v) == << v >>
Panicked == << >>

\* Root resolved as on x86_64 for every architecture that is not aarch64.
RECURSIVE uuid_with_fallback(_, _)
uuid_with_fallback(partition_type, target_arch) ==
    CASE partition_type = <<"Root">> ->
            (CASE target_arch = "aarch64" ->
                    uuid_with_fallback(<<"RootArm64">>, target_arch)
               [] OTHER -> uuid_with_fallback(<<"RootX86_64">>, target_arch))
      [] partition_type = <<"RootArm64">> ->
            Returned("b921b045-1df0-41c3-af44-4c6f280d3fae")
      [] partition_type = <<"RootX86_64">> ->
            Returned("4f68bce3-e8cd-4db1-96e7-fbcaf984b709")
      [] partition_type = <<"Esp">> ->
            Returned("c12a7328-f81f-11d2-ba4b-00a0c93ec93b")
      [] partition_type = <<"Xbootldr">> ->
            Returned("bc13c2ff-59e6-4262-a352-b275fd6f7172")
      [] partition_type = <<"Swap">> ->
            Returned("0657fd6d-a4ab-43c4-84e5-0933c84b4f4f")
      [] partition_type = <<"LinuxGeneric">> ->
            Returned("0fc63daf-8483-4772-8e79-3d69d8477de4")
      [] partition_type = <<"BiosGrub">> ->
            Returned("21686148-6449-6E6F-744E-656564454649")
      [] OTHER -> Returned(partition_type[2])

RECURSIVE uuid(_, _)
uuid(partition_type, target_arch) ==
    CASE partition_type = <<"Root">> ->
            (CASE target_arch = "x86_64" -> uuid(<<"RootX86_64">>, target_arch)
               [] target_arch = "aarch64" -> uuid(<<"RootArm64">>, target_arch)
               [] OTHER -> Panicked)
      [] partition_type = <<"RootArm64">> ->
            Returned("b921b045-1df0-41c3-af44-4c6f280d3fae")
      [] partition_type = <<"RootX86_64">> ->
            Returned("4f68bce3-e8cd-4db1-96e7-fbcaf984b709")
      [] partition_type = <<"Esp">> ->
            Returned("c12a7328-f81f-11d2-ba4b-00a0c93ec93b")
      [] partition_type = <<"Xbootldr">> ->
            Returned("bc13c2ff-59e6-4262-a352-b275fd6f7172")
      [] partition_type = <<"Swap">> ->
            Returned("0657fd6d-a4ab-43c4-84e5-0933c84b4f4f")
      [] partition_type = <<"LinuxGeneric">> ->
            Returned("0fc63daf-8483-4772-8e79-3d69d8477de4")
      [] partition_type = <<"BiosGrub">> ->
            Returned("21686148-6449-6E6F-744E-656564454649")
      [] OTHER -> Returned(partition_type[2])   \* Guid(guid) => guid.to_string()

\* The positions with the pattern 0..=63 widened to every u8.
flag_position_any(flag) ==
    CASE flag = <<"NoAuto">> -> Returned(63)
      [] flag = <<"ReadOnly">> -> Returned(60)
      [] flag = <<"GrowFs">> -> Returned(59)
      [] OTHER -> Returned(flag[2])

flag_position(flag) ==
    CASE flag = <<"NoAuto">> -> Returned(63)
      [] flag = <<"ReadOnly">> -> Returned(60)
      [] flag = <<"GrowFs">> -> Returned(59)
      [] flag[1] = "FlagPosition" /\ flag[2] \in 0..63 -> Returned(flag[2])
      [] OTHER -> Panicked

(***************************************************************************)
(* The partitions layouts are built from.  The first three are the         *)
(* partitions of test_partlay (sizes scaled down); the others exercise     *)
(* the sentinel mountpoints and filesystems, a shared mountpoint,          *)
(* a trailing slash, attribute flags (one of them out of range) and a      *)
(* missing label.                                                          *)
(***************************************************************************)
Partition(label, partition_type, flags, size, filesystem, mountpoint) ==
    [label |-> label, partition_type |-> partition_type, flags |-> flags,
     size |-> size, filesystem |-> filesystem, mountpoint |-> mountpoint]

PartEfi ==
    Partition(Some("EFI"), <<"Esp">>, None, Some(104857600), "efi",
              <<"/", "b", "o", "o", "t", "/", "e", "f", "i">>)
PartBoot ==
    Partition(Some("boot"), <<"Xbootldr">>, None, Some(1572864), "ext4",
              <<"/", "b", "o", "o", "t">>)
PartRoot ==
    Partition(Some("ROOT"), <<"Root">>, None, None, "ext4", <<"/">>)
PartSwap ==
    Partition(None, <<"Swap">>, None, Some(2621440), "swap", << >>)
PartUnmounted ==
    Partition(None, <<"LinuxGeneric">>, Some(<<<<"NoAuto">>>>), Some(1048576),
              "ext4", <<"-">>)
PartRaw ==
    Partition(None, <<"BiosGrub">>, Some(<<<<"ReadOnly">>>>),
              Some(1048576), "none", <<"/", "d", "a", "t", "a">>)
PartData ==
    Partition(Some("data"), <<"LinuxGeneric">>,
              Some(<<<<"GrowFs">>, <<"FlagPosition", 5>>>>), Some(3145728),
              "ext4", <<"/", "d", "a", "t", "a">>)
PartOpt ==
    Partition(None, <<"Guid", "933ac7e1-2eb4-4f13-b844-0e14e2aef915">>,
              Some(<<<<"FlagPosition", 0>>, <<"FlagPosition", 70>>>>),
              None, "ext4", <<"/", "o", "p", "t", "/">>)

\* /boot written with redundant leading slashes.
PartBootSlashes ==
    Partition(Some("boot"), <<"Xbootldr">>, None, Some(1572864), "ext4",
              <<"/", "/", "/", "b", "o", "o", "t">>)

PartitionPool ==
    {PartEfi, PartBoot, PartRoot, PartSwap, PartUnmounted, PartRaw, PartData,
     PartOpt}

Layouts == UNION {[1..n -> PartitionPool] : n \in 0..MaxParts}

\* The layouts mounting is followed on: nested mountpoints, one of them with
\* a trailing slash and one with redundant slashes, and a partition that is
\* not mounted.
MountPool == {PartRoot, PartBoot, PartEfi, PartOpt, PartBootSlashes, PartSwap}
MountLayouts == UNION {[1..n -> MountPool] : n \in 0..MaxParts}

\* The layouts a mount followed by an unmount is run on: nested mountpoints,
\* one with redundant slashes, a partition with a mountpoint and no filesystem,
\* two partitions on one mountpoint, and a partition that is not mounted.
RoundTripPool ==
    {PartRoot, PartBoot, PartEfi, PartBootSlashes, PartRaw, PartData, PartSwap}
RoundTripLayouts == UNION {[1..n -> RoundTripPool] : n \in 0..MaxParts}

\* The layouts apply is followed on: with and without a size, a label and
\* flags, every way of formatting, a type and a flag that do not resolve.
ApplyPool == {PartEfi, PartBoot, PartRoot, PartRaw, PartData, PartOpt}
ApplyLayouts == UNION {[1..n -> ApplyPool] : n \in 0..MaxParts}

DiskSda == <<"/", "d", "e", "v", "/", "s", "d", "a">>
DiskNvme == <<"/", "d", "e", "v", "/", "n", "v", "m", "e", "0", "n", "1">>
Disks == {DiskSda, DiskNvme}
\* The architectures apply is run for: one Root resolves on, one it does not.
Arches == {"x86_64", "riscv64"}

(***************************************************************************)
(* PartitionLayout::get_index and PartitionLayout::sort_partitions         *)
(***************************************************************************)
\* Iterator::position: the 0-based position of the first match, or None.
Position(parts, mountpoint) ==
    LET hits == {i \in 1..Len(parts) : parts[i].mountpoint = mountpoint}
    IN IF hits = {} THEN None
       ELSE Some((CHOOSE i \in hits : \A j \in hits : i <= j) - 1)

get_index(parts, mountpoint) ==
    LET pos == Position(parts, mountpoint)
    IN IF IsSome(pos) THEN Some(Unwrap(pos) + 1) ELSE None

\* BTreeMap::insert: a later insert under the same key replaces the value.
BTreeInsert(m, k, v) ==
    [x \in (DOMAIN m) \cup {k} |-> IF x = k THEN v ELSE m[x]]

\* The loop of lines 322-327, over the first n partitions.
RECURSIVE BuildOrdered(_, _)
BuildOrdered(parts, n) ==
    IF n = 0 THEN << >>
    ELSE BTreeInsert(BuildOrdered(parts, n - 1),
                     Unwrap(get_index(parts, parts[n].mountpoint)), parts[n])

\* BTreeMap::into_iter().collect(): the entries by ascending key.
RECURSIVE IntoVec(_)
IntoVec(m) ==
    IF DOMAIN m = {} THEN << >>
    ELSE LET k == CHOOSE x \in DOMAIN m : \A y \in DOMAIN m : x <= y
         IN << <<k, m[k]>> >> \o IntoVec([x \in (DOMAIN m) \ {k} |-> m[x]])

\* The comparator with the slashes counted in the untrimmed mountpoint.
MountCompareUntrimmed(a, b) ==
    LET am == CountSlashes(a.mountpoint)
        bm == CountSlashes(b.mountpoint)
    IN IF a.mountpoint = << >> THEN "Less"
       ELSE IF b.mountpoint = << >> THEN "Greater"
       ELSE IF a.mountpoint = <<"/">> THEN "Less"
       ELSE IF b.mountpoint = <<"/">> THEN "Greater"
       ELSE IF am = bm THEN StrCmp(a.mountpoint, b.mountpoint)
       ELSE NumCmp(am, bm)

\* The comparator of lines 336-358.
MountCompare(a, b) ==
    LET am == CountSlashes(TrimEndSlashes(a.mountpoint))
        bm == CountSlashes(TrimEndSlashes(b.mountpoint))
    IN IF a.mountpoint = << >> THEN "Less"
       ELSE IF b.mountpoint = << >> THEN "Greater"
       ELSE IF a.mountpoint = <<"/">> THEN "Less"
       ELSE IF b.mountpoint = <<"/">> THEN "Greater"
       ELSE IF am = bm THEN StrCmp(a.mountpoint, b.mountpoint)
       ELSE NumCmp(am, bm)

\* slice::sort_unstable_by on a short slice is an insertion sort: each element
\* moves left while the comparator says it is Less than its left neighbour.
RECURSIVE InsertTail(_, _)
InsertTail(v, x) ==
    IF v = << >> THEN <<x>>
    ELSE IF MountCompare(x[2], v[Len(v)][2]) = "Less"
         THEN InsertTail(SubSeq(v, 1, Len(v) - 1), x) \o <<v[Len(v)]>>
         ELSE v \o <<x>>

RECURSIVE SortUnstableBy(_, _)
SortUnstableBy(v, n) ==
    IF n = 0 THEN << >> ELSE InsertTail(SortUnstableBy(v, n - 1), v[n])

\* The entries in BTreeMap order, without the sort of lines 336-358.
sort_partitions_unsorted(parts) == IntoVec(BuildOrdered(parts, Len(parts)))

sort_partitions(parts) ==
    LET ordered == IntoVec(BuildOrdered(parts, Len(parts)))
    IN SortUnstableBy(ordered, Len(ordered))

(***************************************************************************)
(* The state: the partition layout engine's, then the manifest composer's. *)
(***************************************************************************)
VARIABLES
    partitions,   \* PartitionLayout::partitions, in declaration order
    op,           \* the method running: "none" before any call
    pc,           \* where the method is: "idle", a loop or command site, "done"
    disk,         \* the disk argument of mount_to_chroot and apply
    target_arch,  \* the target_arch argument of apply
    ordered,      \* the local `ordered` (the sequence being iterated)
    it,           \* the 1-based position of the loop; in apply, the fold's i
    fi,           \* apply: the position in the partition's flags
    last_end,     \* apply: the fold's last_end, in bytes
    cmds,         \* every command invoked so far, with its exit status
    entries,      \* fstab: the local `entries`
    result,       \* "none" while running, then "Ok", "Err" or "panic"
    files,        \* the manifest files on disk, by canonical path
    output,       \* the output argument of load_all
    stack,        \* the load_all calls in progress, the innermost last
    effective,    \* by path, what a finished load_all call returned
    loaded,       \* <<"none">>, then <<"Ok", manifest>> or <<"panic">>
    raw,          \* load: the manifest as parsed from the file
    fs,           \* load: the canonical paths that exist
    doc,          \* load: the local `manifest`
    lpc,          \* load: "idle", the loop the call is in, or "done"
    li,           \* load: the 1-based position of the loop
    fslog,        \* load: the exists and canonicalize calls made so far
    lres,         \* load: <<"none">>, then <<"Ok", manifest>> or <<"Err", ...>>
    call,         \* a call of a helper function: <<name, arguments...>>
    ret,          \* what the call returned (Returned) or Panicked
    mounted       \* the system's mount table under the chroot, the latest last

diskVars ==
    <<partitions, op, pc, disk, target_arch, ordered, it, fi, last_end, cmds,
      entries, result>>
manVars == <<files, output, stack, effective, loaded>>
loadVars == <<raw, fs, doc, lpc, li, fslog, lres>>
callVars == <<call, ret>>
sysVars == <<mounted>>
vars == <<diskVars, manVars, loadVars, callVars, sysVars>>

\* An invocation and its exit status (0 is success).  create_dir_all is a
\* library call, not a child process; every other prog is an external command.
Run(prog, args, status) == [prog |-> prog, args |-> args, status |-> status]
ExitStatuses == {0, 1}
IsExternal(c) == c.prog # "create_dir_all"


\* `?` on a failed invocation: the method returns Err.
Fail ==
    /\ result' = "Err"
    /\ pc' = "done"

\* The sequence left in its order: what unmounting without `.rev()` walks.
InOrder(v) == v

Reverse(v) == [i \in 1..Len(v) |-> v[Len(v) + 1 - i]]

\* The text of s up to its first '/', and what follows that '/'.
RECURSIVE FirstComponent(_)
FirstComponent(s) ==
    IF s = << >> \/ Head(s) = "/" THEN << >>
    ELSE <<Head(s)>> \o FirstComponent(Tail(s))

RECURSIVE AfterFirstSlash(_)
AfterFirstSlash(s) ==
    IF s = << >> THEN << >>
    ELSE IF Head(s) = "/" THEN Tail(s) ELSE AfterFirstSlash(Tail(s))

\* The components of a path: the texts between slashes, the empty ones and
\* "." left out.
RECURSIVE PathComponents(_)
PathComponents(s) ==
    IF s = << >> THEN << >>
    ELSE LET first == FirstComponent(s)
         IN (IF first = << >> \/ first = <<".">> THEN << >> ELSE <<first>>)
            \o PathComponents(AfterFirstSlash(s))

\* The mount table, as mount(8) and umount(8) leave it: a successful mount
\* stacks its target on the table, a successful umount takes the latest mount
\* of its target off, and a failed command changes nothing.  Targets are
\* compared as paths, not as text.
SamePath(a, b) == PathComponents(a) = PathComponents(b)
IsMounted(table, target) == \E i \in 1..Len(table) : SamePath(table[i], target)
TakenOff(table, target) ==
    IF ~IsMounted(table, target) THEN table
    ELSE LET last == CHOOSE i \in 1..Len(table) :
                        /\ SamePath(table[i], target)
                        /\ \A j \in (i + 1)..Len(table) : ~SamePath(table[j], target)
         IN SubSeq(table, 1, last - 1) \o SubSeq(table, last + 1, Len(table))
MountTable(table, c) ==
    IF c.status # 0 THEN table
    ELSE IF c.prog = "mount" THEN Append(table, c.args[2])
    ELSE IF c.prog = "umount" THEN TakenOff(table, c.args[1])
    ELSE table
\* The table after a step of a method: only the last command a step runs can
\* be a mount or a umount.
MountTableAfter(table, before, after) ==
    IF after = before THEN table ELSE MountTable(table, after[Len(after)])

(***************************************************************************)
(* PartitionLayout::mount_to_chroot                                        *)
(***************************************************************************)
\* The filter of lines 372-375.
MountSkips(part) ==
    \/ part.mountpoint = << >>
    \/ part.filesystem = "none"
    \/ part.filesystem = "swap"
    \/ part.mountpoint = <<"-">>

MountStart ==
    /\ pc = "idle"
    /\ \E d \in Disks : disk' = d
    /\ op' = "mount_to_chroot"
    /\ ordered' = sort_partitions(partitions)
    /\ it' = 1
    /\ pc' = "loop"
    /\ UNCHANGED <<partitions, target_arch, fi, last_end, cmds, entries, result>>
    /\ UNCHANGED <<manVars, loadVars, callVars, sysVars>>

\* One iteration of the loop of lines 369-392.
MountIter ==
    /\ op = "mount_to_chroot"
    /\ pc = "loop"
    /\ it <= Len(ordered)
    /\ LET index == ordered[it][1]
           part == ordered[it][2]
           devname == partition_name(disk, index)
           mountpoint == TrimStartSlashes(part.mountpoint)
       IN IF MountSkips(part)
          THEN /\ it' = it + 1
               /\ UNCHANGED <<pc, cmds, result>>
          ELSE \/ /\ cmds' = Append(cmds, Run("create_dir_all", <<mountpoint>>, 1))
                  /\ Fail
                  /\ UNCHANGED it
               \/ \E status \in ExitStatuses :
                  /\ cmds' = cmds \o <<Run("create_dir_all", <<mountpoint>>, 0),
                                       Run("mount", <<devname, mountpoint>>, status)>>
                  /\ IF status = 0
                     THEN it' = it + 1 /\ UNCHANGED <<pc, result>>
                     ELSE Fail /\ UNCHANGED it
    /\ UNCHANGED <<partitions, op, disk, target_arch, ordered, fi, last_end, entries>>
    /\ mounted' = MountTableAfter(mounted, cmds, cmds')
    /\ UNCHANGED <<manVars, loadVars, callVars>>

MountReturn ==
    /\ op = "mount_to_chroot"
    /\ pc = "loop"
    /\ it > Len(ordered)
    /\ result' = "Ok"
    /\ pc' = "done"
    /\ UNCHANGED <<partitions, op, disk, target_arch, ordered, it, fi, last_end,
                   cmds, entries>>
    /\ UNCHANGED <<manVars, loadVars, callVars, sysVars>>

(***************************************************************************)
(* PartitionLayout::unmount_from_chroot                                    *)
(***************************************************************************)
\* The filter of line 401.
UnmountSkips(mp) == mp = << >> \/ mp = <<"-">>

UnmountStart ==
    /\ pc = "idle"
    /\ op' = "unmount_from_chroot"
    /\ ordered' = Reverse(sort_partitions(partitions))
    /\ it' = 1
    /\ pc' = "loop"
    /\ UNCHANGED <<partitions, disk, target_arch, fi, last_end, cmds, entries,
                   result>>
    /\ UNCHANGED <<manVars, loadVars, callVars, sysVars>>

\* The iteration without the `?` of line 406: a failed umount is passed over.
UnmountIterUnchecked ==
    /\ op = "unmount_from_chroot"
    /\ pc = "loop"
    /\ it <= Len(ordered)
    /\ LET mp == ordered[it][2].mountpoint
       IN IF UnmountSkips(mp)
          THEN UNCHANGED cmds
          ELSE \E status \in ExitStatuses :
               cmds' = Append(cmds, Run("umount", <<TrimStartSlashes(mp)>>, status))
    /\ it' = it + 1
    /\ UNCHANGED <<partitions, op, pc, disk, target_arch, ordered, fi, last_end,
                   entries, result>>
    /\ mounted' = MountTableAfter(mounted, cmds, cmds')
    /\ UNCHANGED <<manVars, loadVars, callVars>>

\* One iteration of the loop of lines 400-407.
UnmountIter ==
    /\ op = "unmount_from_chroot"
    /\ pc = "loop"
    /\ it <= Len(ordered)
    /\ LET mp == ordered[it][2].mountpoint
       IN IF UnmountSkips(mp)
          THEN /\ it' = it + 1
               /\ UNCHANGED <<pc, cmds, result>>
          ELSE \E status \in ExitStatuses :
               /\ cmds' = Append(cmds, Run("umount", <<TrimStartSlashes(mp)>>, status))
               /\ IF status = 0
                  THEN it' = it + 1 /\ UNCHANGED <<pc, result>>
                  ELSE Fail /\ UNCHANGED it
    /\ UNCHANGED <<partitions, op, disk, target_arch, ordered, fi, last_end, entries>>
    /\ mounted' = MountTableAfter(mounted, cmds, cmds')
    /\ UNCHANGED <<manVars, loadVars, callVars>>

UnmountReturn ==
    /\ op = "unmount_from_chroot"
    /\ pc = "loop"
    /\ it > Len(ordered)
    /\ result' = "Ok"
    /\ pc' = "done"
    /\ UNCHANGED <<partitions, op, disk, target_arch, ordered, it, fi, last_end,
                   cmds, entries>>
    /\ UNCHANGED <<manVars, loadVars, callVars, sysVars>>

\* unmount_from_chroot called on the layout mount_to_chroot has returned Ok
\* on: the entry of lines 397-400, with the commands so far kept.
UnmountAfterMount ==
    /\ op = "mount_to_chroot"
    /\ pc = "done"
    /\ result = "Ok"
    /\ op' = "unmount_from_chroot"
    /\ ordered' = Reverse(sort_partitions(partitions))
    /\ it' = 1
    /\ pc' = "loop"
    /\ result' = "none"
    /\ UNCHANGED <<partitions, disk, target_arch, fi, last_end, cmds, entries>>
    /\ UNCHANGED <<manVars, loadVars, callVars, sysVars>>

\* An iteration of unmount_from_chroot on a system where umount succeeds
\* only on a target that is mounted (it may fail on any target).
UnmountIterOnTable ==
    /\ UnmountIter
    /\ (cmds' # cmds /\ cmds'[Len(cmds')].status = 0)
          => IsMounted(mounted, cmds'[Len(cmds')].args[1])

(***************************************************************************)
(* PartitionLayout::fstab                                                  *)
(***************************************************************************)
\* The test of line 421: the partitions fstab leaves out.
FstabSkips(part) == part.filesystem = "none"

\* What findmnt prints for a path and blkid for a device is the system's
\* answer; the model names it after the question.
FindmntSource(mountpoint_chroot) == <<"source-of", mountpoint_chroot>>
BlkidUuid(devname) == <<"uuid-of", devname>>

FstabStart ==
    /\ pc = "idle"
    /\ op' = "fstab"
    /\ ordered' = sort_partitions(partitions)
    /\ it' = 1
    /\ pc' = "loop"
    /\ UNCHANGED <<partitions, disk, target_arch, fi, last_end, cmds, entries,
                   result>>
    /\ UNCHANGED <<manVars, loadVars, callVars, sysVars>>

\* One call of the closure of lines 420-436.
FstabIter ==
    /\ op = "fstab"
    /\ pc = "loop"
    /\ it <= Len(ordered)
    /\ LET part == ordered[it][2]
           mp == part.mountpoint
           mountpoint_chroot == TrimStartSlashes(part.mountpoint)
           devname == FindmntSource(mountpoint_chroot)
           uuid_ == BlkidUuid(devname)
           fsname == IF part.filesystem = "efi" THEN "vfat" ELSE part.filesystem
           fsck == IF part.filesystem = "efi" THEN 0 ELSE 2
       IN IF FstabSkips(part)
          THEN /\ it' = it + 1
               /\ UNCHANGED <<pc, cmds, entries, result>>
          ELSE \/ /\ cmds' = Append(cmds, Run("findmnt", <<mountpoint_chroot>>, 1))
                  /\ Fail
                  /\ UNCHANGED <<it, entries>>
               \/ \E status \in ExitStatuses :
                  /\ cmds' = cmds \o <<Run("findmnt", <<mountpoint_chroot>>, 0),
                                       Run("blkid", <<devname>>, status)>>
                  /\ IF status = 0
                     THEN /\ entries' = Append(entries,
                                 [uuid |-> uuid_, mp |-> mp, fsname |-> fsname,
                                  fsck |-> fsck])
                          /\ it' = it + 1
                          /\ UNCHANGED <<pc, result>>
                     ELSE Fail /\ UNCHANGED <<it, entries>>
    /\ UNCHANGED <<partitions, op, disk, target_arch, ordered, fi, last_end>>
    /\ UNCHANGED <<manVars, loadVars, callVars, sysVars>>

\* Lines 438-440: the template is rendered from `entries`.
FstabReturn ==
    /\ op = "fstab"
    /\ pc = "loop"
    /\ it > Len(ordered)
    /\ result' = "Ok"
    /\ pc' = "done"
    /\ UNCHANGED <<partitions, op, disk, target_arch, ordered, it, fi, last_end,
                   cmds, entries>>
    /\ UNCHANGED <<manVars, loadVars, callVars, sysVars>>

(***************************************************************************)
(* PartitionLayout::apply.  Each command site is an action; pc names the   *)
(* site the fold's closure is at for partition number `it`.                *)
(***************************************************************************)
\* The size in MiB rounded up instead of down.
MiBRoundedUp(bytes) ==
    Decimal((bytes + 1048575) \div 1048576) \o <<"M", "i", "B">>

\* format!("{}MiB", last_end / 1024 / 1024)
MiB(bytes) == Decimal((bytes \div 1024) \div 1024) \o <<"M", "i", "B">>

\* The closure is entered for the next partition, or try_fold is over.
ApplyEnter(i) ==
    IF i <= Len(partitions)
    THEN /\ it' = i
         /\ fi' = 1
         /\ pc' = "mkpart"
         /\ UNCHANGED result
    ELSE /\ result' = "Ok"
         /\ pc' = "done"
         /\ UNCHANGED <<it, fi>>

\* Lines 443-455: mklabel, then the fold starts from (1, 0).
ApplyStart ==
    /\ pc = "idle"
    /\ op' = "apply"
    /\ \E d \in Disks : disk' = d
    /\ \E a \in Arches : target_arch' = a
    /\ \E status \in ExitStatuses :
       /\ cmds' = Append(cmds, Run("parted mklabel gpt", <<disk'>>, status))
       /\ IF status = 0
          THEN ApplyEnter(1)
          ELSE Fail /\ UNCHANGED <<it, fi>>
    /\ UNCHANGED <<partitions, ordered, last_end, entries>>
    /\ UNCHANGED <<manVars, loadVars, callVars, sysVars>>

\* Lines 456-481.
ApplyMkpart ==
    /\ op = "apply"
    /\ pc = "mkpart"
    /\ LET part == partitions[it]
           start_string == IF it = 1 THEN <<"0">> ELSE MiB(last_end)
           end == IF IsSome(part.size) THEN last_end + Unwrap(part.size)
                  ELSE last_end
           end_string == IF IsSome(part.size) THEN MiB(end)
                         ELSE <<"1", "0", "0", "%">>
       IN /\ last_end' = end
          /\ \E status \in ExitStatuses :
             /\ cmds' = Append(cmds, Run("parted mkpart primary fat32",
                                         <<disk, start_string, end_string>>, status))
             /\ IF status = 0
                THEN pc' = "type" /\ UNCHANGED result
                ELSE Fail
    /\ UNCHANGED <<partitions, op, disk, target_arch, ordered, it, fi, entries>>
    /\ UNCHANGED <<manVars, loadVars, callVars, sysVars>>

\* Lines 483-487.
ApplyType ==
    /\ op = "apply"
    /\ pc = "type"
    /\ LET part_type_uuid == uuid(partitions[it].partition_type, target_arch)
       IN IF part_type_uuid = Panicked
          THEN /\ result' = "panic"
               /\ pc' = "done"
               /\ UNCHANGED cmds
          ELSE \E status \in ExitStatuses :
               /\ cmds' = Append(cmds, Run("parted type",
                                           <<disk, it, part_type_uuid[1]>>, status))
               /\ IF status = 0
                  THEN pc' = "flags" /\ UNCHANGED result
                  ELSE Fail
    /\ UNCHANGED <<partitions, op, disk, target_arch, ordered, it, fi, last_end,
                   entries>>
    /\ UNCHANGED <<manVars, loadVars, callVars, sysVars>>

\* Lines 489-497: one flag per step, then on to the esp site.
ApplyFlags ==
    /\ op = "apply"
    /\ pc = "flags"
    /\ LET flags == partitions[it].flags
       IN IF IsSome(flags) /\ fi <= Len(Unwrap(flags))
          THEN LET position == flag_position(Unwrap(flags)[fi])
               IN IF position = Panicked
                  THEN /\ result' = "panic"
                       /\ pc' = "done"
                       /\ UNCHANGED <<cmds, fi>>
                  ELSE \E status \in ExitStatuses :
                       /\ cmds' = Append(cmds, Run("sgdisk -A set",
                                                   <<it, position[1], disk>>, status))
                       /\ IF status = 0
                          THEN fi' = fi + 1 /\ UNCHANGED <<pc, result>>
                          ELSE Fail /\ UNCHANGED fi
          ELSE /\ pc' = "esp"
               /\ UNCHANGED <<cmds, fi, result>>
    /\ UNCHANGED <<partitions, op, disk, target_arch, ordered, it, last_end, entries>>
    /\ UNCHANGED <<manVars, loadVars, callVars, sysVars>>

\* The esp site without the test of line 499: esp is set on every partition.
ApplyEspAlways ==
    /\ op = "apply"
    /\ pc = "esp"
    /\ \E status \in ExitStatuses :
       /\ cmds' = Append(cmds, Run("parted set esp on", <<disk, it>>, status))
       /\ IF status = 0
          THEN pc' = "name" /\ UNCHANGED result
          ELSE Fail
    /\ UNCHANGED <<partitions, op, disk, target_arch, ordered, it, fi, last_end,
                   entries>>
    /\ UNCHANGED <<manVars, loadVars, callVars, sysVars>>

\* Lines 499-503.
ApplyEsp ==
    /\ op = "apply"
    /\ pc = "esp"
    /\ IF partitions[it].filesystem = "efi"
       THEN \E status \in ExitStatuses :
            /\ cmds' = Append(cmds, Run("parted set esp on", <<disk, it>>, status))
            /\ IF status = 0
               THEN pc' = "name" /\ UNCHANGED result
               ELSE Fail
       ELSE /\ pc' = "name"
            /\ UNCHANGED <<cmds, result>>
    /\ UNCHANGED <<partitions, op, disk, target_arch, ordered, it, fi, last_end,
                   entries>>
    /\ UNCHANGED <<manVars, loadVars, callVars, sysVars>>

\* Lines 505-509.
ApplyName ==
    /\ op = "apply"
    /\ pc = "name"
    /\ LET label == partitions[it].label
       IN IF IsSome(label)
          THEN \E status \in ExitStatuses :
               /\ cmds' = Append(cmds, Run("parted name",
                                           <<disk, it, Unwrap(label)>>, status))
               /\ IF status = 0
                  THEN pc' = "partprobe" /\ UNCHANGED result
                  ELSE Fail
          ELSE /\ pc' = "partprobe"
               /\ UNCHANGED <<cmds, result>>
    /\ UNCHANGED <<partitions, op, disk, target_arch, ordered, it, fi, last_end,
                   entries>>
    /\ UNCHANGED <<manVars, loadVars, callVars, sysVars>>

\* Lines 511-512: `let _ = run_cmd!(partprobe)` drops the Result.
ApplyPartprobe ==
    /\ op = "apply"
    /\ pc = "partprobe"
    /\ \E status \in ExitStatuses :
       cmds' = Append(cmds, Run("partprobe", << >>, status))
    /\ pc' = "mkfs"
    /\ UNCHANGED <<partitions, op, disk, target_arch, ordered, it, fi, last_end,
                   entries, result>>
    /\ UNCHANGED <<manVars, loadVars, callVars, sysVars>>

\* Lines 514-527: format, then the fold goes on with (i + 1, last_end).
ApplyMkfs ==
    /\ op = "apply"
    /\ pc = "mkfs"
    /\ LET fsname == partitions[it].filesystem
           devname == partition_name(disk, it)
       IN IF fsname = "none"
          THEN /\ ApplyEnter(it + 1)
               /\ UNCHANGED cmds
          ELSE \E status \in ExitStatuses :
               /\ cmds' = Append(cmds,
                      IF fsname = "efi"
                      THEN Run("mkfs.fat -F32", <<devname>>, status)
                      ELSE Run("mkfs", <<fsname, devname>>, status))
               /\ IF status = 0
                  THEN ApplyEnter(it + 1)
                  ELSE Fail /\ UNCHANGED <<it, fi>>
    /\ UNCHANGED <<partitions, op, disk, target_arch, ordered, last_end, entries>>
    /\ UNCHANGED <<manVars, loadVars, callVars, sysVars>>



(***************************************************************************)
(* Manifests.  A manifest file is named by its canonical path.  A value    *)
(* a file declares is tagged with the file's name, so that the effective   *)
(* manifest shows where each of its values came from.                      *)
(***************************************************************************)
\* Bound: the deepest nesting of load_all calls the model follows; under
\* SpecRecursion, the frames of load_all the thread's stack holds.
MaxDepth == 3

Paths == {"A", "B", "C"}
RootPath == "A"
OutputFormats == {"Iso", "Device", "DiskImage", "Folder"}

\* Bootloader::default(), and DnfRootBuilder::default(): what mem::take leaves.
DefaultBootloader == "default"
EmptyMap == [k \in {} |-> << >>]
DefaultDnf ==
    [packages |-> << >>, arch_packages |-> EmptyMap, arch_exclude |-> EmptyMap,
     options |-> << >>, exclude |-> << >>, repodir |-> None,
     global_options |-> << >>]

\* The groups of fields a manifest file may declare.
FieldGroups == {"scalars", "media", "dnf"}

\* The manifest parsed from file f, which declares the groups in `declared`
\* and imports `import`.
ManifestFile(f, declared, import) ==
    [import |-> import,
     distro |-> IF "scalars" \in declared THEN Some(f) ELSE None,
     out_file |-> IF "scalars" \in declared THEN Some(f) ELSE None,
     kernel_cmdline |-> IF "scalars" \in declared THEN Some(f) ELSE None,
     bootloader |-> IF "scalars" \in declared THEN f ELSE DefaultBootloader,
     iso |-> IF "media" \in declared THEN Some([volume_id |-> Some(f)]) ELSE None,
     disk |-> IF "media" \in declared
              THEN Some([size |-> Some(f), partitions |-> <<f>>]) ELSE None,
     dnf |-> IF "dnf" \in declared
             THEN [packages |-> <<f>>, arch_packages |-> [x86_64 |-> <<f>>],
                   arch_exclude |-> [x86_64 |-> <<f>>], options |-> <<f>>,
                   exclude |-> <<f>>, repodir |-> Some(f),
                   global_options |-> <<f>>]
             ELSE DefaultDnf]

\* The import lists of the files: none, one, two in either order, a chain
\* A -> B -> C, and the cycles A -> A and A -> B -> A.
ImportChoices ==
    [f \in Paths |->
        CASE f = "A" -> {<< >>, <<"B">>, <<"B", "C">>, <<"C", "B">>, <<"A">>}
          [] f = "B" -> {<< >>, <<"C">>, <<"A">>}
          [] OTHER -> {<< >>}]

(***************************************************************************)
(* merge_struct::merge(base, overrides), as load_all uses it: both values  *)
(* are serialized, merged as JSON values and deserialized.  Objects merge  *)
(* key by key, arrays are concatenated, a null in `overrides` leaves the   *)
(* base value, and any other value of `overrides` replaces the base value. *)
(***************************************************************************)
\* The merge of an Option in which the base value wins when both are set.
MergeOptionKeepBase(a, b) == IF a = None THEN b ELSE a

\* Option<scalar>: None serializes to null.
MergeOption(a, b) == IF b = None THEN a ELSE b

\* A scalar that is never null (the bootloader's name).
MergeScalar(a, b) == b

\* The merge of two arrays with the overrides' elements put first.
MergeVecPrepend(a, b) == b \o a

\* Vec<T>
MergeVec(a, b) == a \o b

\* BTreeMap<String, Vec<T>>: an object whose values are arrays.
MergeMap(a, b) ==
    [k \in (DOMAIN a) \cup (DOMAIN b) |->
        IF k \in DOMAIN a /\ k \in DOMAIN b THEN MergeVec(a[k], b[k])
        ELSE IF k \in DOMAIN a THEN a[k] ELSE b[k]]

\* Option<IsoConfig>
MergeIso(a, b) ==
    IF b = None THEN a
    ELSE IF a = None THEN b
    ELSE Some([volume_id |-> MergeOption(Unwrap(a).volume_id, Unwrap(b).volume_id)])

\* Option<PartitionLayout>
MergeDisk(a, b) ==
    IF b = None THEN a
    ELSE IF a = None THEN b
    ELSE Some([size |-> MergeOption(Unwrap(a).size, Unwrap(b).size),
               partitions |-> MergeVec(Unwrap(a).partitions, Unwrap(b).partitions)])

MergeDnf(a, b) ==
    [packages |-> MergeVec(a.packages, b.packages),
     arch_packages |-> MergeMap(a.arch_packages, b.arch_packages),
     arch_exclude |-> MergeMap(a.arch_exclude, b.arch_exclude),
     options |-> MergeVec(a.options, b.options),
     exclude |-> MergeVec(a.exclude, b.exclude),
     repodir |-> MergeOption(a.repodir, b.repodir),
     global_options |-> MergeVec(a.global_options, b.global_options)]

\* merge(&acc, &imported) of line 177.
MergeManifest(acc, imported) ==
    [import |-> MergeVec(acc.import, imported.import),
     distro |-> MergeOption(acc.distro, imported.distro),
     out_file |-> MergeOption(acc.out_file, imported.out_file),
     kernel_cmdline |-> MergeOption(acc.kernel_cmdline, imported.kernel_cmdline),
     bootloader |-> MergeScalar(acc.bootloader, imported.bootloader),
     iso |-> MergeIso(acc.iso, imported.iso),
     disk |-> MergeDisk(acc.disk, imported.disk),
     dnf |-> MergeDnf(acc.dnf, imported.dnf)]

(***************************************************************************)
(* Manifest::load and Manifest::load_all.  load_all is recursive: a call   *)
(* is a frame of `stack`, holding the call's locals.                       *)
(***************************************************************************)
\* Manifest::load: the manifest of the file, its paths canonical.
load(path) == files[path]

\* Setting the whole of dnf aside, the package lists included.
EnterLoadAllWholeDnf(path) ==
    LET manifest == load(path)
    IN [path |-> path,
        import |-> manifest.import,
        bootloader |-> manifest.bootloader,
        iso |-> manifest.iso,
        disk |-> manifest.disk,
        dnf |-> manifest.dnf,
        manifest |-> [manifest EXCEPT
                        !.bootloader = DefaultBootloader,
                        !.iso = None,
                        !.disk = None,
                        !.dnf = DefaultDnf],
        k |-> 1]

\* Lines 161-174: load the file and set the fields aside.  `manifest` keeps
\* the six dnf fields of lines 169-174, `dnf` the rest of the file's dnf.
EnterLoadAll(path) ==
    LET manifest == load(path)
    IN [path |-> path,
        import |-> manifest.import,
        bootloader |-> manifest.bootloader,
        iso |-> manifest.iso,
        disk |-> manifest.disk,
        dnf |-> [manifest.dnf EXCEPT
                    !.packages = << >>, !.arch_packages = EmptyMap,
                    !.arch_exclude = EmptyMap, !.options = << >>,
                    !.exclude = << >>, !.repodir = None],
        manifest |-> [manifest EXCEPT
                        !.bootloader = DefaultBootloader,
                        !.iso = None,
                        !.disk = None,
                        !.dnf = [DefaultDnf EXCEPT
                                    !.packages = manifest.dnf.packages,
                                    !.arch_packages = manifest.dnf.arch_packages,
                                    !.arch_exclude = manifest.dnf.arch_exclude,
                                    !.options = manifest.dnf.options,
                                    !.exclude = manifest.dnf.exclude,
                                    !.repodir = manifest.dnf.repodir]],
        k |-> 1]

\* Option::or with its operands exchanged.
OptionOrFlipped(a, b) == IF IsSome(b) THEN b ELSE a

\* Option::or
OptionOr(a, b) == IF IsSome(a) THEN a ELSE b

\* Without line 180: the bootloader the merge left in the accumulator.
RestoreBootloaderMerged(frame) == frame.manifest.bootloader

\* Line 180.
RestoreBootloader(frame) == frame.bootloader

\* The match of lines 181-186 with a Folder arm that keeps out_file.
RestoreOutputKeepFile(frame, manifest, out) ==
    CASE out = "Iso" -> [manifest EXCEPT !.iso = OptionOr(frame.iso, manifest.iso)]
      [] out = "DiskImage" ->
            [manifest EXCEPT !.disk = OptionOr(frame.disk, manifest.disk)]
      [] out = "Folder" -> manifest

\* A restore that puts both set-aside media fields back whatever the output
\* kind is.
RestoreOutputBothMedia(frame, manifest, out) ==
    LET both == [manifest EXCEPT !.iso = OptionOr(frame.iso, manifest.iso),
                                 !.disk = OptionOr(frame.disk, manifest.disk)]
    IN IF out = "Folder" THEN [both EXCEPT !.out_file = None] ELSE both

\* Lines 181-186, for the output kinds that return.
RestoreOutput(frame, manifest, out) ==
    CASE out = "Iso" -> [manifest EXCEPT !.iso = OptionOr(frame.iso, manifest.iso)]
      [] out = "DiskImage" ->
            [manifest EXCEPT !.disk = OptionOr(frame.disk, manifest.disk)]
      [] out = "Folder" -> [manifest EXCEPT !.out_file = None]

\* Lines 187-196.
RestoreDnf(frame, manifest) ==
    [frame.dnf EXCEPT
        !.packages = manifest.dnf.packages,
        !.arch_packages = manifest.dnf.arch_packages,
        !.arch_exclude = manifest.dnf.arch_exclude,
        !.exclude = manifest.dnf.exclude,
        !.repodir = manifest.dnf.repodir,
        !.options = MergeVec(manifest.dnf.options, manifest.dnf.global_options)]

\* Lines 180-198: what the call returns once the fold is over.
FinishLoadAll(frame, out) ==
    LET restored ==
            RestoreOutput(frame,
                          [frame.manifest EXCEPT !.bootloader = RestoreBootloader(frame)],
                          out)
    IN [restored EXCEPT !.dnf = RestoreDnf(frame, restored)]

Top == stack[Len(stack)]

\* The caller's Manifest::load_all(path, output), line 157.
LoadAllCall ==
    /\ stack = << >>
    /\ loaded = <<"none">>
    /\ stack' = <<EnterLoadAll(RootPath)>>
    /\ UNCHANGED <<files, output, effective, loaded>>
    /\ UNCHANGED <<diskVars, loadVars, callVars, sysVars>>

\* Line 177: the fold's closure calls load_all on the next import.
LoadAllImport ==
    /\ stack # << >>
    /\ Top.k <= Len(Top.import)
    /\ Len(stack) < MaxDepth
    /\ stack' = Append(stack, EnterLoadAll(Top.import[Top.k]))
    /\ UNCHANGED <<files, output, effective, loaded>>
    /\ UNCHANGED <<diskVars, loadVars, callVars, sysVars>>

\* Line 177 once the thread's stack holds MaxDepth frames of load_all: the
\* next recursive call exhausts the stack and the process is aborted; nothing
\* is returned and nothing unwinds.
LoadAllOverflow ==
    /\ stack # << >>
    /\ Top.k <= Len(Top.import)
    /\ Len(stack) >= MaxDepth
    /\ loaded' = <<"overflow">>
    /\ stack' = << >>
    /\ UNCHANGED <<files, output, effective>>
    /\ UNCHANGED <<diskVars, loadVars, callVars, sysVars>>

\* The return with a Device arm that does nothing instead of todo!().
LoadAllReturnDeviceBuilt ==
    /\ stack # << >>
    /\ Top.k > Len(Top.import)
    /\ LET returned == FinishLoadAll(Top, IF output = "Device" THEN "Iso" ELSE output)
           depth == Len(stack)
       IN /\ effective' = [effective EXCEPT ![Top.path] = Some(returned)]
          /\ IF depth = 1
             THEN /\ loaded' = <<"Ok", returned>>
                  /\ stack' = << >>
             ELSE /\ stack' =
                       [SubSeq(stack, 1, depth - 1) EXCEPT
                           ![depth - 1].manifest =
                               MergeManifest(stack[depth - 1].manifest, returned),
                           ![depth - 1].k = stack[depth - 1].k + 1]
                  /\ UNCHANGED loaded
    /\ UNCHANGED <<files, output>>
    /\ UNCHANGED <<diskVars, loadVars, callVars, sysVars>>

\* Lines 180-198 of the innermost call, then line 177 of its caller: the
\* returned manifest is merged into the caller's accumulator.
LoadAllReturn ==
    /\ stack # << >>
    /\ Top.k > Len(Top.import)
    /\ IF output = "Device"
       THEN /\ loaded' = <<"panic">>     \* todo!(), line 183
            /\ stack' = << >>
            /\ UNCHANGED effective
       ELSE LET returned == FinishLoadAll(Top, output)
                depth == Len(stack)
            IN /\ effective' = [effective EXCEPT ![Top.path] = Some(returned)]
               /\ IF depth = 1
                  THEN /\ loaded' = <<"Ok", returned>>
                       /\ stack' = << >>
                  ELSE /\ stack' =
                            [SubSeq(stack, 1, depth - 1) EXCEPT
                                ![depth - 1].manifest =
                                    MergeManifest(stack[depth - 1].manifest, returned),
                                ![depth - 1].k = stack[depth - 1].k + 1]
                       /\ UNCHANGED loaded
    /\ UNCHANGED <<files, output>>
    /\ UNCHANGED <<diskVars, loadVars, callVars, sysVars>>

(***************************************************************************)
(* Manifest::load on one manifest file.  A path is <<directory, name>>; a  *)
(* reference in the file is relative (a name) or absolute (a path).  The   *)
(* name "./x" is another spelling of "x": canonicalize turns it into "x".  *)
(***************************************************************************)
\* Bounds: the longest import list, and the longest pre and post script lists.
MaxImports == 2
MaxScripts == 1

ManifestDir == "/m"
WorkingDir == "/w"
Rel(name) == <<"rel", name>>
Abs(dir, name) == <<"abs", dir, name>>
ImportRefs == {Rel("x"), Rel("./x"), Rel("y"), Abs(WorkingDir, "x")}
ScriptFiles == {None, Some(Rel("./x")), Some(Rel("y"))}
Repodirs == {None, Some(Rel("x")), Some(Rel("y"))}
FsPaths == {<<ManifestDir, "x">>, <<ManifestDir, "y">>, <<WorkingDir, "x">>}

\* Path::join: an absolute argument replaces the base.
Join(dir, ref) == IF ref[1] = "abs" THEN <<ref[2], ref[3]>> ELSE <<dir, ref[2]>>

\* The name with "./" resolved.
Normal(name) == IF name = "./x" THEN "x" ELSE name

\* Path::exists
Exists(p) == <<p[1], Normal(p[2])>> \in fs

\* Path::canonicalize of a path that exists, as the PathBuf stored back.
Canonicalize(p) == Abs(p[1], Normal(p[2]))

PathNotExists(p) == <<"Err", "Path does not exist", p>>

\* Lines 99 and 108: the file is read and parsed and its directory found,
\* or one of these fails.
LoadOpen ==
    /\ lpc = "idle"
    /\ \/ /\ lres' = <<"Err", "read">>
          /\ lpc' = "done"
          /\ UNCHANGED <<doc, li>>
       \/ /\ doc' = raw
          /\ lpc' = "import"
          /\ li' = 1
          /\ UNCHANGED lres
    /\ UNCHANGED <<raw, fs, fslog>>
    /\ UNCHANGED <<diskVars, manVars, callVars, sysVars>>

\* One iteration over a reference: the test of exists, then canonicalize.
\* `ref` is the reference, `stored` the manifest with the canonical path in.
CheckAndStore(ref, stored) ==
    LET joined == Join(ManifestDir, ref)
    IN IF ~Exists(joined)
       THEN /\ fslog' = Append(fslog, <<"exists", joined>>)
            /\ lres' = PathNotExists(joined)
            /\ lpc' = "done"
            /\ UNCHANGED <<doc, li>>
       ELSE /\ fslog' = fslog \o << <<"exists", joined>>, <<"canonicalize", joined>> >>
            /\ doc' = stored
            /\ li' = li + 1
            /\ UNCHANGED <<lpc, lres>>

\* The loop is over: on to the next one.
NextLoop(next) ==
    /\ lpc' = next
    /\ li' = 1
    /\ UNCHANGED <<doc, fslog, lres>>

\* Lines 113-120.
LoadImports ==
    /\ lpc = "import"
    /\ IF li <= Len(doc.import)
       THEN CheckAndStore(doc.import[li],
                [doc EXCEPT !.import[li] = Canonicalize(Join(ManifestDir, doc.import[li]))])
       ELSE NextLoop("pre")
    /\ UNCHANGED <<raw, fs>>
    /\ UNCHANGED <<diskVars, manVars, callVars, sysVars>>

\* Lines 124-132.
LoadPreScripts ==
    /\ lpc = "pre"
    /\ IF li <= Len(doc.pre)
       THEN IF IsSome(doc.pre[li])
            THEN CheckAndStore(Unwrap(doc.pre[li]),
                    [doc EXCEPT !.pre[li] =
                        Some(Canonicalize(Join(ManifestDir, Unwrap(doc.pre[li]))))])
            ELSE /\ li' = li + 1
                 /\ UNCHANGED <<doc, lpc, fslog, lres>>
       ELSE NextLoop("post")
    /\ UNCHANGED <<raw, fs>>
    /\ UNCHANGED <<diskVars, manVars, callVars, sysVars>>

\* Lines 134-142.
LoadPostScripts ==
    /\ lpc = "post"
    /\ IF li <= Len(doc.post)
       THEN IF IsSome(doc.post[li])
            THEN CheckAndStore(Unwrap(doc.post[li]),
                    [doc EXCEPT !.post[li] =
                        Some(Canonicalize(Join(ManifestDir, Unwrap(doc.post[li]))))])
            ELSE /\ li' = li + 1
                 /\ UNCHANGED <<doc, lpc, fslog, lres>>
       ELSE NextLoop("repodir")
    /\ UNCHANGED <<raw, fs>>
    /\ UNCHANGED <<diskVars, manVars, callVars, sysVars>>

\* The end of load without the repodir block of lines 145-152.
LoadRepodirUnchecked ==
    /\ lpc = "repodir"
    /\ lres' = <<"Ok", doc>>
    /\ lpc' = "done"
    /\ UNCHANGED <<raw, fs, doc, li, fslog>>
    /\ UNCHANGED <<diskVars, manVars, callVars, sysVars>>

\* Lines 145-154: the repodir, then Ok(manifest).
LoadRepodir ==
    /\ lpc = "repodir"
    /\ IF IsSome(doc.repodir)
       THEN LET repodir_can == Join(ManifestDir, Unwrap(doc.repodir))
            IN IF ~Exists(repodir_can)
               THEN /\ fslog' = Append(fslog, <<"exists", repodir_can>>)
                    /\ lres' = PathNotExists(repodir_can)
                    /\ UNCHANGED doc
               ELSE /\ fslog' = fslog \o << <<"exists", repodir_can>>,
                                            <<"canonicalize", repodir_can>> >>
                    /\ doc' = [doc EXCEPT !.repodir = Some(Canonicalize(repodir_can))]
                    /\ lres' = <<"Ok", doc'>>
       ELSE /\ lres' = <<"Ok", doc>>
            /\ UNCHANGED <<doc, fslog>>
    /\ lpc' = "done"
    /\ UNCHANGED <<raw, fs, li>>
    /\ UNCHANGED <<diskVars, manVars, callVars, sysVars>>

(***************************************************************************)
(* The helper functions called on their own: partition_name,               *)
(* PartitionFlag::flag_position and PartitionType::uuid on any arguments.  *)
(***************************************************************************)
\* Bound: the largest partition number passed to partition_name.
MaxIndex == 12
\* u8::MAX: FlagPosition holds a u8.
U8Max == 255

DiskMmcblk == DevMmcblk \o <<"0">>
DiskLoop == DevLoop \o <<"0">>
DiskMd == <<"/", "d", "e", "v", "/", "m", "d", "0">>
DiskNvmPrefix == <<"/", "d", "e", "v", "/", "n", "v", "m">>
DiskRelativeLoop == <<"l", "o", "o", "p", "0">>
CallDisks ==
    {DiskMmcblk, DiskNvme, DiskLoop, DiskSda, DiskMd, DevLoop, DiskNvmPrefix,
     DiskRelativeLoop, << >>}

Flags ==
    {<<"NoAuto">>, <<"ReadOnly">>, <<"GrowFs">>}
    \cup {<<"FlagPosition", n>> : n \in 0..U8Max}

FixedTypes ==
    {<<"RootArm64">>, <<"RootX86_64">>, <<"Esp">>, <<"Xbootldr">>, <<"Swap">>,
     <<"LinuxGeneric">>, <<"BiosGrub">>}
PartitionTypes ==
    {<<"Root">>} \cup FixedTypes
    \cup {<<"Guid", "933ac7e1-2eb4-4f13-b844-0e14e2aef915">>, <<"Guid", "">>}
CallArches == {"x86_64", "aarch64", "riscv64", "", "arm64", "X86_64", "i686"}

CallPartitionName ==
    /\ call = <<"none">>
    /\ \E d \in CallDisks, n \in 0..MaxIndex :
          /\ call' = <<"partition_name", d, n>>
          /\ ret' = Returned(partition_name(d, n))
    /\ UNCHANGED <<diskVars, manVars, loadVars, sysVars>>

CallFlagPosition ==
    /\ call = <<"none">>
    /\ \E flag \in Flags :
          /\ call' = <<"flag_position", flag>>
          /\ ret' = flag_position(flag)
    /\ UNCHANGED <<diskVars, manVars, loadVars, sysVars>>

CallUuid ==
    /\ call = <<"none">>
    /\ \E t \in PartitionTypes, a \in CallArches :
          /\ call' = <<"uuid", t, a>>
          /\ ret' = uuid(t, a)
    /\ UNCHANGED <<diskVars, manVars, loadVars, sysVars>>

(***************************************************************************)
(* Initial states and specifications.                                      *)
(***************************************************************************)
\* The set of elements of a sequence.
Range(v) == {v[i] : i \in 1..Len(v)}

\* The files load_all(RootPath) can get to through import lists `imp`.
Reachable(imp) ==
    LET r1 == {RootPath} \cup Range(imp[RootPath])
        r2 == r1 \cup UNION {Range(imp[f]) : f \in r1}
    IN r2 \cup UNION {Range(imp[f]) : f \in r2}

\* No load_all call has been made.
InitManifestIdle ==
    /\ stack = << >>
    /\ effective = [f \in Paths |-> None]
    /\ loaded = <<"none">>

\* Any manifest files; a file load_all never reads is left empty.
InitManifest ==
    /\ \E imp \in [Paths -> UNION {ImportChoices[f] : f \in Paths}],
          declared \in [Paths -> SUBSET FieldGroups] :
          /\ \A f \in Paths : imp[f] \in ImportChoices[f]
          /\ \A f \in Paths \ Reachable(imp) : imp[f] = << >> /\ declared[f] = {}
          /\ files = [f \in Paths |-> ManifestFile(f, declared[f], imp[f])]
    /\ output \in OutputFormats
    /\ InitManifestIdle

\* No partition method has been called.
InitDiskIdle ==
    /\ op = "none"
    /\ pc = "idle"
    /\ disk = << >>
    /\ target_arch = ""
    /\ ordered = << >>
    /\ it = 0
    /\ fi = 0
    /\ last_end = 0
    /\ cmds = << >>
    /\ entries = << >>
    /\ result = "none"

\* A manifest that refers to no path.
NoReferences == [import |-> << >>, pre |-> << >>, post |-> << >>, repodir |-> None]

\* No load call has been made.
InitFileIdle ==
    /\ doc = NoReferences
    /\ lpc = "idle"
    /\ li = 0
    /\ fslog = << >>
    /\ lres = <<"none">>

\* No helper has been called on its own.
InitNoCall ==
    /\ call = <<"none">>
    /\ ret = << >>

\* Nothing is mounted under the chroot.
InitNoMount == mounted = << >>

\* No manifest file is looked at.
InitNoFile ==
    /\ raw = NoReferences
    /\ fs = {}
    /\ InitFileIdle

\* Any manifest file in ManifestDir, in any file system.
InitFile ==
    /\ \E import \in UNION {[1..n -> ImportRefs] : n \in 0..MaxImports},
          pre \in UNION {[1..n -> ScriptFiles] : n \in 0..MaxScripts},
          post \in UNION {[1..n -> ScriptFiles] : n \in 0..MaxScripts},
          repodir \in Repodirs :
          raw = [import |-> import, pre |-> pre, post |-> post, repodir |-> repodir]
    /\ fs \in SUBSET FsPaths
    /\ InitFileIdle
    /\ InitNoCall
    /\ InitNoMount
    /\ partitions = << >>
    /\ InitDiskIdle
    /\ files = [f \in Paths |-> ManifestFile(f, {}, << >>)]
    /\ output = "Folder"
    /\ InitManifestIdle

InitDisk ==
    /\ partitions \in Layouts
    /\ InitDiskIdle
    /\ InitNoFile
    /\ InitNoCall
    /\ InitNoMount
    /\ files = [f \in Paths |-> ManifestFile(f, {}, << >>)]
    /\ output = "Folder"
    /\ InitManifestIdle

InitMount ==
    /\ partitions \in MountLayouts
    /\ InitDiskIdle
    /\ InitNoFile
    /\ InitNoCall
    /\ InitNoMount
    /\ files = [f \in Paths |-> ManifestFile(f, {}, << >>)]
    /\ output = "Folder"
    /\ InitManifestIdle

InitApply ==
    /\ partitions \in ApplyLayouts
    /\ InitDiskIdle
    /\ InitNoFile
    /\ InitNoCall
    /\ InitNoMount
    /\ files = [f \in Paths |-> ManifestFile(f, {}, << >>)]
    /\ output = "Folder"
    /\ InitManifestIdle

InitLoad ==
    /\ partitions = << >>
    /\ InitDiskIdle
    /\ InitNoFile
    /\ InitNoCall
    /\ InitNoMount
    /\ InitManifest

NextDisk ==
    \/ MountStart \/ MountIter \/ MountReturn
    \/ UnmountStart \/ UnmountIter \/ UnmountReturn
    \/ FstabStart \/ FstabIter \/ FstabReturn
    \/ ApplyStart \/ ApplyMkpart \/ ApplyType \/ ApplyFlags \/ ApplyEsp
    \/ ApplyName \/ ApplyPartprobe \/ ApplyMkfs

NextLoad == LoadAllCall \/ LoadAllImport \/ LoadAllReturn

NextFile ==
    LoadOpen \/ LoadImports \/ LoadPreScripts \/ LoadPostScripts \/ LoadRepodir

NextRecursion == LoadAllCall \/ LoadAllImport \/ LoadAllReturn \/ LoadAllOverflow

\* load_all run to its end on a stack of MaxDepth frames: the thread running
\* it takes its next step whenever there is one.
SpecRecursion == InitLoad /\ [][NextRecursion]_vars /\ WF_vars(NextRecursion)

\* The partition layout engine on any layout.
SpecDisk == InitDisk /\ [][NextDisk]_vars

NextMount == MountStart \/ MountIter \/ MountReturn

\* mount_to_chroot on layouts of nested mountpoints.
SpecMount == InitMount /\ [][NextMount]_vars

InitRoundTrip ==
    /\ partitions \in RoundTripLayouts
    /\ InitDiskIdle
    /\ InitNoFile
    /\ InitNoCall
    /\ InitNoMount
    /\ files = [f \in Paths |-> ManifestFile(f, {}, << >>)]
    /\ output = "Folder"
    /\ InitManifestIdle

NextRoundTrip ==
    \/ MountStart \/ MountIter \/ MountReturn
    \/ UnmountAfterMount \/ UnmountIterOnTable \/ UnmountReturn

\* mount_to_chroot and, when it has succeeded, unmount_from_chroot on the
\* same layout.
SpecRoundTrip == InitRoundTrip /\ [][NextRoundTrip]_vars

NextApply ==
    \/ ApplyStart \/ ApplyMkpart \/ ApplyType \/ ApplyFlags \/ ApplyEsp
    \/ ApplyName \/ ApplyPartprobe \/ ApplyMkfs

\* apply on layouts of every kind of partition.
SpecApply == InitApply /\ [][NextApply]_vars

\* The manifest composer on any manifest files.
SpecLoad == InitLoad /\ [][NextLoad]_vars

\* Manifest::load on any manifest file.
SpecFile == InitFile /\ [][NextFile]_vars

InitCalls ==
    /\ partitions = << >>
    /\ InitDiskIdle
    /\ files = [f \in Paths |-> ManifestFile(f, {}, << >>)]
    /\ output = "Folder"
    /\ InitManifestIdle
    /\ InitNoFile
    /\ InitNoCall
    /\ InitNoMount

NextCalls == CallPartitionName \/ CallFlagPosition \/ CallUuid

\* The helper functions on any arguments.
SpecCalls == InitCalls /\ [][NextCalls]_vars

(***************************************************************************)
(* Properties of the partition layout engine, checked under SpecDisk.      *)
(***************************************************************************)
\* What sort_partitions returned to the method that is running.
SortedNow == IF op = "unmount_from_chroot" THEN Reverse(ordered) ELSE ordered
UsesSort == op \in {"mount_to_chroot", "unmount_from_chroot", "fstab"}

\* The commands of cmds[1..k] run by `prog`.
Count(prog, k) == Cardinality({j \in 1..k : cmds[j].prog = prog})

\* The subsequence of the commands run by `prog`, as their argument lists.
RECURSIVE ArgsOf(_, _)
ArgsOf(prog, log) ==
    IF log = << >> THEN << >>
    ELSE (IF Head(log).prog = prog THEN <<Head(log).args>> ELSE << >>)
         \o ArgsOf(prog, Tail(log))

\* sort_partitions returns one (index, partition) entry per declared partition,
\* its index the partition's 1-based declaration position.
C1_SortKeepsEveryPartition ==
    UsesSort =>
        /\ Len(SortedNow) = Len(partitions)
        /\ \A i \in 1..Len(partitions) :
              \E k \in 1..Len(SortedNow) : SortedNow[k] = <<i, partitions[i]>>

\* A mount_to_chroot that returned Ok has mounted, for every declared partition
\* that is to be mounted, the device named by its declaration position.
C1_MountUsesDeclarationPosition ==
    (op = "mount_to_chroot" /\ result = "Ok") =>
        \A i \in 1..Len(partitions) :
            ~MountSkips(partitions[i]) =>
                \E k \in 1..Len(cmds) :
                    /\ cmds[k].prog = "mount"
                    /\ cmds[k].args = <<partition_name(disk, i),
                                        TrimStartSlashes(partitions[i].mountpoint)>>

\* apply numbers the partition it is creating by its declaration position: the
\* n-th mkpart is followed by commands on partition number n and on the device
\* partition_name(disk, n), formatted with the n-th declared filesystem.
C1_ApplyUsesDeclarationPosition ==
    op = "apply" =>
        \A k \in 1..Len(cmds) :
            LET n == Count("parted mkpart primary fat32", k)
                c == cmds[k]
            IN /\ c.prog \in {"parted type", "parted set esp on", "parted name"}
                    => c.args[2] = n
               /\ c.prog = "sgdisk -A set" => c.args[1] = n
               /\ c.prog = "mkfs.fat -F32" =>
                    /\ c.args = <<partition_name(disk, n)>>
                    /\ partitions[n].filesystem = "efi"
               /\ c.prog = "mkfs" =>
                    c.args = <<partitions[n].filesystem, partition_name(disk, n)>>
               /\ n <= Len(partitions)

\* C1: every operation that refers to a partition by number uses the
\* partition's 1-based position in declaration order, also in layouts where
\* several partitions have the same mountpoint: sort_partitions returns one
\* entry per declared partition under that index, mount_to_chroot mounts the
\* device of that index, and apply creates and formats the i-th declared
\* partition as partition number i.
C1_NumberingIsDeclarationPosition ==
    /\ C1_SortKeepsEveryPartition
    /\ C1_MountUsesDeclarationPosition
    /\ C1_ApplyUsesDeclarationPosition

\* The targets a mount_to_chroot of the layout mounts when every command
\* succeeds: the entries of sort_partitions the mount filter keeps, in order.
RECURSIVE MountTargets(_)
MountTargets(sorted) ==
    IF sorted = << >> THEN << >>
    ELSE (IF MountSkips(Head(sorted)[2]) THEN << >>
          ELSE <<TrimStartSlashes(Head(sorted)[2].mountpoint)>>)
         \o MountTargets(Tail(sorted))

\* The targets of the commands of `log` run by `prog`, the target being the
\* last argument.
TargetsOf(prog, log) ==
    LET args == ArgsOf(prog, log)
    IN [k \in 1..Len(args) |-> args[k][Len(args[k])]]

\* C2: the sequence of targets unmount_from_chroot unmounts is the reverse of
\* the sequence of targets mount_to_chroot mounts for the same layout: both
\* skip the same partitions, and the others appear in opposite order.
C2_UnmountIsReverseOfMount ==
    /\ (op = "mount_to_chroot" /\ result = "Ok") =>
            TargetsOf("mount", cmds) = MountTargets(sort_partitions(partitions))
    /\ (op = "unmount_from_chroot" /\ result = "Ok") =>
            TargetsOf("umount", cmds)
                = Reverse(MountTargets(sort_partitions(partitions)))

\* C3 as stated: in apply, mount_to_chroot and unmount_from_chroot every
\* external command gates the next step: once one exits non-zero the method
\* has returned an error and no further external command is issued.
C3_EveryCommandGates ==
    op \in {"apply", "mount_to_chroot", "unmount_from_chroot"} =>
        \A k \in 1..Len(cmds) :
            (IsExternal(cmds[k]) /\ cmds[k].status # 0) =>
                /\ k = Len(cmds)
                /\ result = "Err"
                /\ pc = "done"

\* C3 as amended: every external command except the partition table refresh
\* (partprobe, whose exit status apply drops) gates the next step: once one
\* exits non-zero the method has returned an error and no further external
\* command is issued.
C3_EveryCommandButPartprobeGates ==
    op \in {"apply", "mount_to_chroot", "unmount_from_chroot"} =>
        \A k \in 1..Len(cmds) :
            (IsExternal(cmds[k]) /\ cmds[k].status # 0
                /\ cmds[k].prog # "partprobe") =>
                /\ k = Len(cmds)
                /\ result = "Err"
                /\ pc = "done"

\* An apply in which a partprobe failed and apply went on, until the format
\* of the second partition failed and apply returned the error.
C3_Witness ==
    /\ op = "apply"
    /\ result = "Err"
    /\ it = 2
    /\ cmds[Len(cmds)].prog = "mkfs"
    /\ cmds[Len(cmds)].status # 0
    /\ \E k \in 1..(Len(cmds) - 1) :
          cmds[k].prog = "partprobe" /\ cmds[k].status # 0

\* A partition fstab and mount_to_chroot are to leave alone.
Sentinel(part) ==
    \/ part.mountpoint = << >>
    \/ part.mountpoint = <<"-">>
    \/ part.filesystem = "none"
    \/ part.filesystem = "swap"

\* C8: fstab produces no entry for a partition whose mountpoint is empty or
\* "-" or whose filesystem is "none" or "swap": such a partition is neither
\* looked up (findmnt, blkid) nor written into the generated fstab.
C8_FstabLeavesSentinelsOut ==
    op = "fstab" =>
        /\ \A k \in 1..Len(entries) :
              /\ entries[k].mp \notin {<< >>, <<"-">>}
              /\ entries[k].fsname \notin {"none", "swap"}
        /\ Count("findmnt", Len(cmds))
              <= Cardinality({j \in 1..Len(ordered) :
                                j <= it /\ ~Sentinel(ordered[j][2])})

\* C9: mount_to_chroot issues no mount command and creates no directory for a
\* partition whose mountpoint is empty or "-" or whose filesystem is "none" or
\* "swap"; such a partition does not make it fail, and the other partitions
\* are still mounted.  A partition is the one whose device is mounted: the
\* device of its declaration position.
C9_SentinelsSkippedOthersMounted ==
    op = "mount_to_chroot" =>
        /\ \A k \in 1..Len(cmds) :
              cmds[k].prog = "mount" =>
                  \E i \in 1..Len(partitions) :
                      /\ ~Sentinel(partitions[i])
                      /\ cmds[k].args = <<partition_name(disk, i),
                                          TrimStartSlashes(partitions[i].mountpoint)>>
        /\ \A k \in 1..Len(cmds) :
              cmds[k].prog = "create_dir_all" =>
                  \E i \in 1..Len(partitions) :
                      /\ ~Sentinel(partitions[i])
                      /\ cmds[k].args = <<TrimStartSlashes(partitions[i].mountpoint)>>
        /\ result = "Err" => (cmds # << >> /\ cmds[Len(cmds)].status # 0)
        /\ result = "Ok" =>
              \A i \in 1..Len(partitions) :
                  ~Sentinel(partitions[i]) =>
                      \E k \in 1..Len(cmds) :
                          /\ cmds[k].prog = "mount"
                          /\ cmds[k].args = <<partition_name(disk, i),
                                              TrimStartSlashes(partitions[i].mountpoint)>>

\* The layouts whose partitions have pairwise different mountpoints.
DistinctMountpoints ==
    \A i, j \in 1..Len(partitions) :
        partitions[i].mountpoint = partitions[j].mountpoint => i = j

\* What is left of C1 and C9 where get_index cannot confuse two partitions:
\* both hold of every layout with pairwise different mountpoints.
NumberingOnDistinctMountpoints ==
    DistinctMountpoints => C1_NumberingIsDeclarationPosition
SkippingOnDistinctMountpoints ==
    DistinctMountpoints => C9_SentinelsSkippedOthersMounted

\* The order C10 describes: an empty mountpoint first, then "/", then by the
\* number of '/' of the mountpoint without its trailing slashes, then by the
\* bytes of the mountpoint.
Rank(mp) == IF mp = << >> THEN 0 ELSE IF mp = <<"/">> THEN 1 ELSE 2
Depth(mp) == CountSlashes(TrimEndSlashes(mp))
ComesBefore(a, b) ==
    \/ Rank(a) < Rank(b)
    \/ /\ Rank(a) = 2
       /\ Rank(b) = 2
       /\ \/ Depth(a) < Depth(b)
          \/ Depth(a) = Depth(b) /\ StrCmp(a, b) = "Less"

\* C10: sort_partitions returns the partitions with an empty mountpoint first,
\* then "/", then the others by ascending number of '/' in the mountpoint with
\* trailing slashes trimmed, ties broken by comparing the mountpoint strings;
\* declared as [/boot/efi, /boot, /] they come back as
\* [(3, /), (2, /boot), (1, /boot/efi)].
C10_SortOrder ==
    UsesSort =>
        /\ \A i, j \in 1..Len(SortedNow) :
              i < j => ComesBefore(SortedNow[i][2].mountpoint,
                                   SortedNow[j][2].mountpoint)
        /\ partitions = <<PartEfi, PartBoot, PartRoot>> =>
              SortedNow = << <<3, PartRoot>>, <<2, PartBoot>>, <<1, PartEfi>> >>

\* sort_partitions has returned for the layout of test_partlay, and for none
\* of its entries did declaration order agree with the order returned.
C10_Witness ==
    /\ op = "mount_to_chroot"
    /\ partitions = <<PartEfi, PartBoot, PartRoot>>
    /\ ordered = << <<3, PartRoot>>, <<2, PartBoot>>, <<1, PartEfi>> >>

(***************************************************************************)
(* Properties of the manifest composer, checked under SpecLoad.            *)
(***************************************************************************)
RootFile == files[RootPath]
Returns == loaded[1] = "Ok"
Effective == loaded[2]

\* The effective manifests of the root's imports, in import order (each is
\* there once load_all on the root has returned).
ImportResults ==
    [i \in 1..Len(RootFile.import) |-> Unwrap(effective[RootFile.import[i]])]

\* `first` followed by the lists of `lists`, in order.
RECURSIVE ConcatAll(_, _)
ConcatAll(first, lists) ==
    IF lists = << >> THEN first
    ELSE ConcatAll(first \o Head(lists), Tail(lists))

\* The last Some among `first` and then the options of `options`, else None.
RECURSIVE LastSet(_, _)
LastSet(first, options) ==
    IF options = << >> THEN first
    ELSE LastSet(IF IsSome(Head(options)) THEN Head(options) ELSE first,
                 Tail(options))

\* The list a map holds under a key, empty when the key is absent.
ListAt(map, key) == IF key \in DOMAIN map THEN map[key] ELSE << >>

\* Map `merged` holds, under every key of the root's map `own` and of the
\* imports' maps, the root's list followed by the imports' lists.
MapsConcatenated(merged, own, maps) ==
    /\ DOMAIN merged = (DOMAIN own) \cup UNION {DOMAIN maps[i] : i \in 1..Len(maps)}
    /\ \A key \in DOMAIN merged :
          merged[key] = ConcatAll(ListAt(own, key),
                                  [i \in 1..Len(maps) |-> ListAt(maps[i], key)])

C5_RootScalarWins ==
    Returns =>
        /\ IsSome(RootFile.distro) => Effective.distro = RootFile.distro
        /\ IsSome(RootFile.kernel_cmdline) =>
              Effective.kernel_cmdline = RootFile.kernel_cmdline

\* C5 as amended: when the root and an import both set such a scalar field,
\* the effective manifest holds the import's value: the imported result wins
\* over the accumulator it is merged into, so the field is that of the last
\* import, in declared order, whose effective manifest sets it, and the
\* root's own value only when no import sets it.
C5_ImportedScalarWins ==
    Returns =>
        LET imports == ImportResults
            n == Len(imports)
        IN /\ Effective.distro =
                 LastSet(RootFile.distro, [i \in 1..n |-> imports[i].distro])
           /\ Effective.kernel_cmdline =
                 LastSet(RootFile.kernel_cmdline,
                         [i \in 1..n |-> imports[i].kernel_cmdline])

\* load_all has returned for a root that sets distro and imports B, which sets
\* it too: the result holds B's.
C5_Witness ==
    /\ Returns
    /\ RootFile.import = <<"B">>
    /\ RootFile.distro = Some("A")
    /\ files["B"].distro = Some("B")
    /\ Effective.distro = Some("B")

\* C6: for every output kind for which load_all returns, the effective
\* manifest's bootloader is the root manifest file's, whatever bootloader a
\* direct or transitive import declares.
C6_BootloaderIsTheRoots ==
    Returns => Effective.bootloader = RootFile.bootloader

\* load_all has returned for a root that declares no bootloader and imports
\* B, which imports C; both declare one.
C6_Witness ==
    /\ Returns
    /\ RootFile.import = <<"B">>
    /\ files["B"].import = <<"C">>
    /\ RootFile.bootloader = DefaultBootloader
    /\ files["B"].bootloader = "B"
    /\ files["C"].bootloader = "C"

\* The iso config, and the disk layout, the fold leaves in the accumulator:
\* the merge of the imports' effective values, in import order.
RECURSIVE MergedIso(_, _)
MergedIso(acc, imports) ==
    IF imports = << >> THEN acc
    ELSE MergedIso(MergeIso(acc, Head(imports).iso), Tail(imports))

RECURSIVE MergedDisk(_, _)
MergedDisk(acc, imports) ==
    IF imports = << >> THEN acc
    ELSE MergedDisk(MergeDisk(acc, Head(imports).disk), Tail(imports))

\* C7: with Iso output the effective manifest's iso config is the root's when
\* the root declares one, and otherwise the value the merge of the imports
\* produced; with DiskImage output the same holds of the disk layout.
C7_RootMediaWins ==
    Returns =>
        /\ output = "Iso" =>
              Effective.iso = IF IsSome(RootFile.iso) THEN RootFile.iso
                              ELSE MergedIso(None, ImportResults)
        /\ output = "DiskImage" =>
              Effective.disk = IF IsSome(RootFile.disk) THEN RootFile.disk
                               ELSE MergedDisk(None, ImportResults)

\* load_all has returned a disk image manifest for a root that declares no
\* layout and imports B and C, which both declare one: the result holds the
\* merge of the two.
C7_Witness ==
    /\ Returns
    /\ output = "DiskImage"
    /\ RootFile.import = <<"B", "C">>
    /\ RootFile.disk = None
    /\ IsSome(files["B"].disk)
    /\ IsSome(files["C"].disk)
    /\ Effective.disk = Some([size |-> Some("C"), partitions |-> <<"B", "C">>])

(***************************************************************************)
(* Properties of apply, checked under SpecApply.                           *)
(***************************************************************************)
\* What a command of apply addresses: the disk, a partition number or a
\* partition device.
Addressed(c) ==
    CASE c.prog \in {"parted mklabel gpt", "parted mkpart primary fat32"} -> c.args[1]
      [] c.prog \in {"parted type", "parted set esp on", "parted name"} -> c.args[2]
      [] c.prog = "sgdisk -A set" -> c.args[1]
      [] c.prog \in {"mkfs.fat -F32", "mkfs"} -> c.args[Len(c.args)]
      [] OTHER -> 0

\* The commands run so far, each as <<program, what it addresses>>.
StepsRun == [k \in 1..Len(cmds) |-> <<cmds[k].prog, Addressed(cmds[k])>>]

\* The format step of partition i: none for filesystem "none" unless
\* `always` says every partition is formatted.
FormatStep(i, always) ==
    LET part == partitions[i]
    IN IF part.filesystem = "efi"
       THEN << <<"mkfs.fat -F32", partition_name(disk, i)>> >>
       ELSE IF part.filesystem = "none" /\ ~always THEN << >>
       ELSE << <<"mkfs", partition_name(disk, i)>> >>

\* The steps for partition i, in the order of the claim.
PartitionSteps(i, always) ==
    LET part == partitions[i]
    IN << <<"parted mkpart primary fat32", disk>>, <<"parted type", i>> >>
       \o (IF IsSome(part.flags)
           THEN [f \in 1..Len(Unwrap(part.flags)) |-> <<"sgdisk -A set", i>>]
           ELSE << >>)
       \o (IF part.filesystem = "efi" THEN << <<"parted set esp on", i>> >> ELSE << >>)
       \o (IF IsSome(part.label) THEN << <<"parted name", i>> >> ELSE << >>)
       \o << <<"partprobe", 0>> >>
       \o FormatStep(i, always)

\* mklabel, then the steps of partitions 1..n in declaration order.
RECURSIVE ApplyPlan(_, _)
ApplyPlan(n, always) ==
    IF n = 0 THEN << <<"parted mklabel gpt", disk>> >>
    ELSE ApplyPlan(n - 1, always) \o PartitionSteps(n, always)

IsPrefix(a, b) == Len(a) <= Len(b) /\ SubSeq(b, 1, Len(a)) = a

FollowsPlan(always) ==
    op = "apply" =>
        LET plan == ApplyPlan(Len(partitions), always)
            steps == StepsRun
        IN /\ IsPrefix(steps, plan)
           /\ result = "Ok" => steps = plan

\* C11 as stated: apply runs mklabel gpt once, first, and then for each
\* partition in declaration order: create, set type, set each flag, set esp
\* (only for filesystem "efi"), set name (only with a label), refresh the
\* partition table, format; partition i is finished before partition i+1.
C11_ApplyOrderFormatsAll == FollowsPlan(TRUE)

\* C11 as amended: the same order, except that a partition whose filesystem
\* is "none" is not formatted: its steps end with the refresh.
C11_ApplyOrder == FollowsPlan(FALSE)

\* apply has returned Ok for three partitions: one with filesystem "none" and
\* a flag, one with filesystem "efi" and a label, and one more.
C11_Witness ==
    /\ op = "apply"
    /\ result = "Ok"
    /\ Len(partitions) = 3
    /\ partitions[1] = PartRaw
    /\ partitions[2] = PartEfi
    /\ partitions[3] = PartData
    /\ Len(cmds) = 18

\* The sum of the sizes the first n partitions declare, in bytes.
RECURSIVE DeclaredBytes(_)
DeclaredBytes(n) ==
    IF n = 0 THEN 0
    ELSE DeclaredBytes(n - 1)
         + (IF IsSome(partitions[n].size) THEN Unwrap(partitions[n].size) ELSE 0)

\* floor(bytes / 2^20), printed with the unit.
FloorMiB(bytes) == Decimal(bytes \div 1048576) \o <<"M", "i", "B">>

\* The arguments of the create commands run so far: <<disk, start, end>>.
Created == ArgsOf("parted mkpart primary fat32", cmds)

\* C12: the first partition starts at "0"; a partition with a size ends at
\* floor(S / 2^20) MiB, S the sum of the sizes declared up to and including
\* it, and one without a size ends at "100%"; a later partition starts where
\* the previous computed end landed, so that after a partition with a size
\* the start passed equals the end passed before.
C12_StartAndEnd ==
    op = "apply" =>
        LET created == Created
        IN /\ Len(created) <= Len(partitions)
           /\ \A i \in 1..Len(created) :
                 /\ created[i][2] = IF i = 1 THEN <<"0">>
                                    ELSE FloorMiB(DeclaredBytes(i - 1))
                 /\ created[i][3] = IF IsSome(partitions[i].size)
                                    THEN FloorMiB(DeclaredBytes(i))
                                    ELSE <<"1", "0", "0", "%">>
                 /\ (i > 1 /\ IsSome(partitions[i - 1].size)) =>
                       created[i][2] = created[i - 1][3]

\* apply has created two 1.5 MiB partitions and a 3 MiB one: the second ends
\* at 3MiB (the floor of the sum, not the sum of the floors).
C12_Witness ==
    /\ op = "apply"
    /\ partitions = <<PartBoot, PartBoot, PartData>>
    /\ Len(Created) = 3
    /\ Created[1][3] = <<"1", "M", "i", "B">>
    /\ Created[2][2] = <<"1", "M", "i", "B">>
    /\ Created[2][3] = <<"3", "M", "i", "B">>
    /\ Created[3][2] = <<"3", "M", "i", "B">>
    /\ Created[3][3] = <<"6", "M", "i", "B">>

(***************************************************************************)
(* More properties of the manifest composer, checked under SpecLoad.       *)
(***************************************************************************)
\* The packages of file f with those of its imports resolved into it, depth
\* first in declared order, following imports `fuel` levels down.
RECURSIVE Flattened(_, _), FlattenedAll(_, _)
Flattened(f, fuel) ==
    IF fuel = 0 THEN << >>
    ELSE files[f].dnf.packages \o FlattenedAll(files[f].import, fuel - 1)

FlattenedAll(paths, fuel) ==
    IF paths = << >> THEN << >>
    ELSE Flattened(Head(paths), fuel) \o FlattenedAll(Tail(paths), fuel)

\* C13: an import is merged into its importer's accumulator only fully
\* resolved (with A importing B and B importing C, C is in B before B is
\* merged into A), imports are folded in declared order, and the manifest
\* returned holds every transitively imported manifest, with no import
\* reference in it that was not resolved.
C13_ImportsResolvedDepthFirst ==
    /\ \A d \in 1..Len(stack) :
          stack[d].manifest.dnf.packages =
              files[stack[d].path].dnf.packages
              \o FlattenedAll(SubSeq(stack[d].import, 1, stack[d].k - 1), MaxDepth)
    /\ Returns =>
          /\ Effective.dnf.packages = Flattened(RootPath, MaxDepth)
          /\ \A i \in 1..Len(Effective.import) :
                IsSome(effective[Effective.import[i]])

\* load_all has returned for A importing B and B importing C, all three
\* declaring packages.
C13_Witness ==
    /\ Returns
    /\ RootFile.import = <<"B">>
    /\ files["B"].import = <<"C">>
    /\ Unwrap(effective["B"]).dnf.packages = <<"B", "C">>
    /\ Effective.dnf.packages = <<"A", "B", "C">>
    /\ Effective.import = <<"B", "C">>

\* C14: with Folder output the manifest load_all returns has no out_file,
\* whatever out_file the root or an import declares.
C14_FolderHasNoOutFile ==
    (Returns /\ output = "Folder") => Effective.out_file = None

\* load_all has returned with Folder output for a root that declares an
\* out_file and imports B, which declares one too.
C14_Witness ==
    /\ Returns
    /\ output = "Folder"
    /\ RootFile.import = <<"B">>
    /\ IsSome(RootFile.out_file)
    /\ IsSome(files["B"].out_file)

\* C15: with Device output load_all never returns a manifest, from the root
\* call or from a call for an import: a call that gets past its fold panics.
C15_DeviceNeverReturns ==
    output = "Device" =>
        /\ loaded \in {<<"none">>, <<"panic">>}
        /\ \A f \in Paths : effective[f] = None

\* load_all has panicked with Device output for a root that imports B, which
\* imports C.
C15_Witness ==
    /\ output = "Device"
    /\ loaded = <<"panic">>
    /\ RootFile.import = <<"B">>
    /\ files["B"].import = <<"C">>

(***************************************************************************)
(* Properties of Manifest::load, checked under SpecFile.                   *)
(***************************************************************************)
\* The paths the file refers to.
References ==
    Range(raw.import)
    \cup {Unwrap(raw.pre[i]) : i \in {j \in 1..Len(raw.pre) : IsSome(raw.pre[j])}}
    \cup {Unwrap(raw.post[i]) : i \in {j \in 1..Len(raw.post) : IsSome(raw.post[j])}}
    \cup (IF IsSome(raw.repodir) THEN {Unwrap(raw.repodir)} ELSE {})

\* A reference resolved against the directory of the manifest file.
Resolved(ref) ==
    IF ref[1] = "abs" THEN <<ref[2], ref[3]>> ELSE <<ManifestDir, ref[2]>>

\* The canonical absolute path of a resolved reference that exists.
CanonicalOf(ref) == Abs(Resolved(ref)[1], Normal(Resolved(ref)[2]))

OnDisk(ref) == <<Resolved(ref)[1], Normal(Resolved(ref)[2])>> \in fs

\* The manifest of the file with every reference made canonical.
WithCanonicalPaths ==
    [import |-> [i \in 1..Len(raw.import) |-> CanonicalOf(raw.import[i])],
     pre |-> [i \in 1..Len(raw.pre) |->
                IF IsSome(raw.pre[i]) THEN Some(CanonicalOf(Unwrap(raw.pre[i])))
                ELSE None],
     post |-> [i \in 1..Len(raw.post) |->
                IF IsSome(raw.post[i]) THEN Some(CanonicalOf(Unwrap(raw.post[i])))
                ELSE None],
     repodir |-> IF IsSome(raw.repodir) THEN Some(CanonicalOf(Unwrap(raw.repodir)))
                 ELSE None]

\* C16: once the file is read, load returns the path-not-found error of a
\* missing path, and no manifest, whenever an import, a pre or post script
\* file or the repodir, resolved against the manifest file's directory, does
\* not exist; a path is canonicalized only right after its existence check;
\* and when every path exists the manifest returned has each replaced by its
\* canonical absolute path.
C16_LoadChecksPaths ==
    /\ (lpc = "done" /\ lres # <<"Err", "read">>) =>
          IF \E ref \in References : ~OnDisk(ref)
          THEN \E ref \in References :
                  /\ ~OnDisk(ref)
                  /\ lres = <<"Err", "Path does not exist", Resolved(ref)>>
          ELSE lres = <<"Ok", WithCanonicalPaths>>
    /\ \A k \in 1..Len(fslog) :
          fslog[k][1] = "canonicalize" =>
             k > 1 /\ fslog[k - 1] = <<"exists", fslog[k][2]>>

\* load has failed on a post script file that is missing from the manifest's
\* directory, after canonicalizing an import spelled "./x"; a file "x" in the
\* working directory does not help.
C16_Witness ==
    /\ lpc = "done"
    /\ raw.import = <<Rel("./x")>>
    /\ raw.post = <<Some(Rel("y"))>>
    /\ fs = {<<ManifestDir, "x">>, <<WorkingDir, "x">>}
    /\ doc.import = <<Abs(ManifestDir, "x")>>
    /\ lres = <<"Err", "Path does not exist", <<ManifestDir, "y">>>>

(***************************************************************************)
(* Properties of the helper functions, checked under SpecCalls.            *)
(***************************************************************************)
\* The number a string of decimal digits stands for.
RECURSIVE DecimalValue(_)
DecimalValue(digits) ==
    IF digits = << >> THEN 0
    ELSE 10 * DecimalValue(SubSeq(digits, 1, Len(digits) - 1))
         + (CHOOSE v \in 0..9 :
               <<"0", "1", "2", "3", "4", "5", "6", "7", "8", "9">>[v + 1]
                   = digits[Len(digits)])

IsDigits(s) ==
    /\ s # << >>
    /\ \A i \in 1..Len(s) : s[i] \in {"0", "1", "2", "3", "4", "5", "6", "7", "8", "9"}
    /\ Len(s) > 1 => s[1] # "0"

BeginsWith(s, text) ==
    /\ Len(s) >= Len(text)
    /\ \A i \in 1..Len(text) : s[i] = text[i]

\* C17: partition_name(disk, n) is disk, then "p" exactly when disk starts
\* with /dev/mmcblk, /dev/nvme or /dev/loop, then n in decimal.
C17_PartitionName ==
    call[1] = "partition_name" =>
        LET d == call[2]
            n == call[3]
            name == Unwrap(ret)
            rest == SubSeq(name, Len(d) + 1, Len(name))
            wantsP == \/ BeginsWith(d, <<"/", "d", "e", "v", "/", "m", "m", "c", "b", "l", "k">>)
                      \/ BeginsWith(d, <<"/", "d", "e", "v", "/", "n", "v", "m", "e">>)
                      \/ BeginsWith(d, <<"/", "d", "e", "v", "/", "l", "o", "o", "p">>)
            digits == IF wantsP THEN Tail(rest) ELSE rest
        IN /\ BeginsWith(name, d)
           /\ rest # << >>
           /\ wantsP => Head(rest) = "p"
           /\ IsDigits(digits)
           /\ DecimalValue(digits) = n

\* partition_name("/dev/nvme0n1", 12) has returned "/dev/nvme0n1p12".
C17_Witness ==
    /\ call = <<"partition_name", DiskNvme, 12>>
    /\ ret = Returned(DiskNvme \o <<"p", "1", "2">>)

\* C18: flag_position gives 63 for NoAuto, 60 for ReadOnly, 59 for GrowFs and
\* n for a numeric flag n in 0..63; it fails fatally for every numeric flag
\* above 63, and never returns a position outside 0..63.
C18_FlagPosition ==
    call[1] = "flag_position" =>
        LET flag == call[2]
        IN /\ flag = <<"NoAuto">> => ret = Returned(63)
           /\ flag = <<"ReadOnly">> => ret = Returned(60)
           /\ flag = <<"GrowFs">> => ret = Returned(59)
           /\ (flag[1] = "FlagPosition" /\ flag[2] <= 63) => ret = Returned(flag[2])
           /\ (flag[1] = "FlagPosition" /\ flag[2] > 63) => ret = Panicked
           /\ ret # Panicked => Unwrap(ret) \in 0..63

\* flag_position has panicked on the numeric flag 70.
C18_Witness ==
    /\ call = <<"flag_position", <<"FlagPosition", 70>>>>
    /\ ret = Panicked

\* The GUIDs of the partition types that have a fixed one.
FixedGuid(t) ==
    CASE t = <<"RootArm64">> -> "b921b045-1df0-41c3-af44-4c6f280d3fae"
      [] t = <<"RootX86_64">> -> "4f68bce3-e8cd-4db1-96e7-fbcaf984b709"
      [] t = <<"Esp">> -> "c12a7328-f81f-11d2-ba4b-00a0c93ec93b"
      [] t = <<"Xbootldr">> -> "bc13c2ff-59e6-4262-a352-b275fd6f7172"
      [] t = <<"Swap">> -> "0657fd6d-a4ab-43c4-84e5-0933c84b4f4f"
      [] t = <<"LinuxGeneric">> -> "0fc63daf-8483-4772-8e79-3d69d8477de4"
      [] t = <<"BiosGrub">> -> "21686148-6449-6E6F-744E-656564454649"

\* C19: uuid resolves Root to the RootX86_64 GUID on x86_64 and to the
\* RootArm64 GUID on aarch64 and fails fatally on every other architecture;
\* every other type resolves to its fixed GUID, and Guid to its literal
\* value, whatever the architecture.
C19_TypeResolution ==
    call[1] = "uuid" =>
        LET t == call[2]
            arch == call[3]
        IN /\ t = <<"Root">> =>
                 ret = CASE arch = "x86_64" -> Returned(FixedGuid(<<"RootX86_64">>))
                         [] arch = "aarch64" -> Returned(FixedGuid(<<"RootArm64">>))
                         [] OTHER -> Panicked
           /\ t \in FixedTypes => ret = Returned(FixedGuid(t))
           /\ t[1] = "Guid" => ret = Returned(t[2])

\* uuid has panicked on Root for riscv64.
C19_Witness ==
    /\ call = <<"uuid", <<"Root">>, "riscv64">>
    /\ ret = Panicked

(***************************************************************************)
(* Properties of the mount order, checked under SpecMount.                 *)
(***************************************************************************)
\* Path a is a proper ancestor of path b.
ProperAncestor(a, b) ==
    LET ca == PathComponents(a)
        cb == PathComponents(b)
    IN Len(ca) < Len(cb) /\ SubSeq(cb, 1, Len(ca)) = ca

\* A mountpoint written as an absolute path with no empty and no "."
\* component (one trailing slash apart).
WellFormed(mp) ==
    /\ mp # << >>
    /\ Head(mp) = "/"
    /\ \A i \in 1..(Len(mp) - 1) : ~(mp[i] = "/" /\ mp[i + 1] = "/")
    /\ \A i \in 1..Len(mp) :
          ~(/\ mp[i] = "."
            /\ (i = 1 \/ mp[i - 1] = "/")
            /\ (i = Len(mp) \/ mp[i + 1] = "/"))

\* No partition is mounted before one whose mountpoint is a proper ancestor
\* of its own.
AncestorsMountedFirst ==
    LET targets == TargetsOf("mount", cmds)
    IN \A k, l \in 1..Len(targets) :
          k < l => ~ProperAncestor(targets[l], targets[k])

\* C20 as stated: of any two partitions mount_to_chroot mounts, one whose
\* mountpoint is a proper path-ancestor of the other's is mounted first,
\* whatever the declaration order.
C20_AncestorsFirst ==
    op = "mount_to_chroot" => AncestorsMountedFirst

\* C20 as amended: the same, provided the mountpoints of the partitions that
\* are mounted are written as absolute paths without empty or "." components
\* (no repeated slash); a trailing slash does no harm.
C20_AncestorsFirstWhenWellFormed ==
    (/\ op = "mount_to_chroot"
     /\ \A i \in 1..Len(partitions) :
           MountSkips(partitions[i]) \/ WellFormed(partitions[i].mountpoint))
    => AncestorsMountedFirst

\* mount_to_chroot has mounted /, /boot and /boot/efi, declared in the
\* opposite order.
C20_Witness ==
    /\ op = "mount_to_chroot"
    /\ result = "Ok"
    /\ partitions = <<PartEfi, PartBoot, PartRoot>>
    /\ TargetsOf("mount", cmds) =
          << << >>, <<"b", "o", "o", "t">>,
             <<"b", "o", "o", "t", "/", "e", "f", "i">> >>

(***************************************************************************)
(* Properties of a mount followed by an unmount, checked under             *)
(* SpecRoundTrip.                                                          *)
(***************************************************************************)
Unmounting == op = "unmount_from_chroot"
LastCommand == cmds[Len(cmds)]
\* The last command run is a umount that succeeded / that failed.
JustUnmounted ==
    Unmounting /\ cmds # << >> /\ LastCommand.prog = "umount" /\ LastCommand.status = 0
UmountFailed ==
    Unmounting /\ cmds # << >> /\ LastCommand.prog = "umount" /\ LastCommand.status # 0
\* Something is still mounted at a path beneath the target.
MountedBeneath(target) ==
    \E i \in 1..Len(mounted) : ProperAncestor(target, mounted[i])
MountedPartsWellFormed ==
    \A i \in 1..Len(partitions) :
        MountSkips(partitions[i]) \/ WellFormed(partitions[i].mountpoint)

\* C21 as stated: whenever unmount_from_chroot, run after a successful
\* mount_to_chroot of the same layout, has just unmounted a target, nothing is
\* still mounted at a path beneath that target; this on runs that abort on a
\* failed umount too.
C21_NoParentBeforeChild ==
    JustUnmounted => ~MountedBeneath(LastCommand.args[1])

\* C21, amended: the same, for layouts whose mounted partitions have
\* well-formed mountpoints (absolute, no empty and no "." component).
C21_NoParentBeforeChildWhenWellFormed ==
    (JustUnmounted /\ MountedPartsWellFormed)
        => ~MountedBeneath(LastCommand.args[1])

\* boot/efi has been unmounted and boot and the root are still mounted, on a
\* run that then aborts on a failed umount of boot.
C21_Witness ==
    /\ partitions = <<PartBoot, PartEfi, PartRoot>>
    /\ Unmounting
    /\ pc = "done"
    /\ result = "Err"
    /\ UmountFailed
    /\ Len(mounted) = 2
    /\ Count("umount", Len(cmds)) = 2

\* umount has succeeded on every target that was mounted: the one umount that
\* can have failed, the last, was run on a target that is not mounted.
UmountFailedOnlyOffTable ==
    UmountFailed => ~IsMounted(mounted, LastCommand.args[1])
RoundTripDone == Unmounting /\ pc = "done" /\ UmountFailedOnlyOffTable

\* C22: when unmount_from_chroot, run after a successful mount_to_chroot of
\* the same layout on a system where umount succeeds on the targets that are
\* mounted and fails on the others, has returned, it has returned Ok and
\* nothing of the layout is mounted any more.
C22_RoundTrip ==
    RoundTripDone => (result = "Ok" /\ mounted = << >>)

\* The two filters agree on the layout: what unmount_from_chroot runs umount
\* on, mount_to_chroot has mounted.
FiltersAgree ==
    \A i \in 1..Len(partitions) :
        MountSkips(partitions[i]) => UnmountSkips(partitions[i].mountpoint)
\* The round trip on the layouts the two filters agree on.
RoundTripWhenFiltersAgree ==
    (RoundTripDone /\ FiltersAgree) => (result = "Ok" /\ mounted = << >>)
\* A round trip that has succeeded on a layout of three mounted partitions.
RoundTripWhenFiltersAgreeWitness ==
    /\ partitions = <<PartEfi, PartRoot, PartBootSlashes>>
    /\ Unmounting
    /\ pc = "done"
    /\ result = "Ok"
    /\ mounted = << >>
    /\ Count("umount", Len(cmds)) = 3

(***************************************************************************)
(* The media fields of the effective manifest, checked under SpecLoad.     *)
(***************************************************************************)
\* C23: the manifest load_all returns has no disk layout when the output kind
\* is Iso or Folder and no iso config when it is DiskImage or Folder,
\* whatever the root and its imports declare; the same for every call made
\* for an import.
C23_MediaOnlyForOwnKind ==
    /\ (Returns /\ output \in {"Iso", "Folder"}) => Effective.disk = None
    /\ (Returns /\ output \in {"DiskImage", "Folder"}) => Effective.iso = None
    /\ \A f \in Paths :
          IsSome(effective[f]) =>
              /\ output \in {"Iso", "Folder"} => Unwrap(effective[f]).disk = None
              /\ output \in {"DiskImage", "Folder"} => Unwrap(effective[f]).iso = None

\* load_all has returned with Iso output for a root that declares an iso
\* config and a disk layout and imports B, which declares both too: the iso
\* config is back and the disk layout is not.
C23_Witness ==
    /\ Returns
    /\ output = "Iso"
    /\ RootFile.import = <<"B">>
    /\ IsSome(RootFile.disk)
    /\ IsSome(RootFile.iso)
    /\ IsSome(files["B"].disk)
    /\ IsSome(Effective.iso)
    /\ Effective.disk = None

(***************************************************************************)
(* Termination of load_all, checked under SpecRecursion.                   *)
(***************************************************************************)
\* The files the root call reads import one another in a cycle.
RECURSIVE ReachesFrom(_, _, _)
ReachesFrom(f, g, n) ==
    IF n = 0 THEN FALSE
    ELSE \E h \in Range(files[f].import) : h = g \/ ReachesFrom(h, g, n - 1)
Cyclic(f) == ReachesFrom(f, f, Cardinality(Paths))
ImportCycle == \E f \in Paths : Cyclic(f)
\* The paths of the calls in progress, the innermost last.
PathsOnStack == [i \in 1..Len(stack) |-> stack[i].path]

\* C24: the root call of load_all comes to an end, by returning (or, for
\* Device output, by the panic of C15), whatever the files import, a cycle of
\* imports included.
C24_LoadAllTerminates == <>(loaded[1] \in {"Ok", "Err", "panic"})

\* Without a cycle of imports the root call comes to an end.
TerminatesWithoutCycle ==
    (~ImportCycle) => <>(loaded[1] \in {"Ok", "Err", "panic"})
\* The stack is exhausted only on a cycle of imports, and a path imported
\* while a call for it is in progress is on such a cycle.
OverflowOnlyOnCycle ==
    /\ loaded = <<"overflow">> => ImportCycle
    /\ \A i, j \in 1..Len(stack) :
          (i < j /\ stack[i].path = stack[j].path) => Cyclic(stack[i].path)
\* With a cycle of imports the root call never returns a manifest.
NoReturnOnCycle == ImportCycle => ~Returns
====
